---- MODULE Spec2Model ----
(***************************************************************************)
(* File-backed response cache of the research router                       *)
(* (src/src/services/cache/index.ts, class CacheService).                   *)
(*                                                                         *)
(* The state is the cache directory (one JSON file per entry, stats.json), *)
(* the in-memory statistics of the service object and the clock.  Each     *)
(* public method is one action that models the whole handler; the failure  *)
(* of one of its file-system calls is an input of the action.              *)
(***************************************************************************)
EXTENDS Integers, Sequences, FiniteSets, TLC

VARIABLES
  now,         \* Date.now(), in ms since the construction of the service
  dirExists,   \* the cache directory exists
  files,       \* entry files of the directory: key -> file content
  statsFile,   \* content of stats.json
  stats,       \* this.stats, the in-memory CacheStats
  initialized, \* initialize() has run to completion
  last,        \* the call that completed last: its arguments and its result
  calls,       \* number of calls of get, set, clear, cleanup and getStats made
  faults,      \* number of file-system calls that were made to fail
  costCall,    \* the call of calculatePerplexityCost: arguments, result, logs
  tasks        \* the calls in flight when calls overlap: where each one stands

vars ==
  <<now, dirExists, files, statsFile, stats, initialized, last, calls, faults,
    costCall, tasks>>

----------------------------------------------------------------------------
(* Bounds of the model *)

\* calls of get, set, clear, cleanup and getStats in one run
MaxCalls == 3
\* file-system calls made to fail in one run
MaxFaults == 1

----------------------------------------------------------------------------
(* Program constants *)

\* new CacheService(24)
ttlHours == 24
\* this.ttlHours * 60 * 60 * 1000
TtlMs == ttlHours * 60 * 60 * 1000
\* estimatedCostSavings += 0.013, held in thousandths of a dollar
HitSavingMilli == 13

----------------------------------------------------------------------------
(* Values *)

\* JavaScript null, as returned by get on a miss and as read back by JSON.parse
Null == "null"
\* the value undefined of a property
Undefined == "undefined"

Queries == {"q1"}

\* params objects, as the sequence of their properties in insertion order:
\* the cacheParams of the research router, and the same properties with
\* the first two written in the other order
ParamsFB == << <<"focus", "tools">>, <<"budget_conscious", "true">>,
               <<"include_reasoning", "false">>, <<"max_models", "2">> >>
ParamsBF == << <<"budget_conscious", "true">>, <<"focus", "tools">>,
               <<"include_reasoning", "false">>, <<"max_models", "2">> >>
ParamMaps == {ParamsFB, ParamsBF}

\* (query, params) pairs passed to get and set
Inputs == Queries \X ParamMaps

\* responses passed to set: a JSON value and the number NaN
Responses == {"r1", "NaN"}
Models == {"sonar-pro"}
ProcessingTimes == {1200}

\* the properties of a params object as a set of name/value pairs
PairsOf(p) == {p[i] : i \in DOMAIN p}

----------------------------------------------------------------------------
(* JSON and the key *)

\* JSON.stringify of an object drops the properties whose value is undefined
\* and writes the others in insertion order
StringifyObject(p) == SelectSeq(p, LAMBDA kv : kv[2] # Undefined)

\* JSON.parse(JSON.stringify(v)) of a value: NaN is written as null, the
\* other values of the model are read back as written
JsonRoundTrip(v) == IF v = "NaN" THEN Null ELSE v

\* crypto.createHash('sha256').update(data).digest('hex'): taken as free of
\* collisions, a digest stands for the data hashed
Sha256(data) == <<"sha256", data>>

\* mutant of generateKey: the digest of the query alone
generateKey_QueryOnly(query, params) ==
  Sha256(<<query, <<>>>>)

\* sha256 of `${query}:${JSON.stringify(params)}` (lines 88-91)
generateKey(query, params) ==
  Sha256(<<query, StringifyObject(params)>>)

Keys == {generateKey(qp[1], qp[2]) : qp \in Inputs}

----------------------------------------------------------------------------
(* File contents *)

NoFile == [kind |-> "none"]
\* a file whose content JSON.parse rejects (left by a write that failed midway)
Corrupt == [kind |-> "corrupt"]

IsEntry(f) == f.kind = "entry"

\* mutant of NewEntry: expiresAt is the time of the write, without the TTL
NewEntry_NoTtl(query, params, response, modelUsed, processingTime, t) ==
  [kind |-> "entry",
   key |-> generateKey(query, params),
   query |-> query,
   params |-> StringifyObject(params),
   response |-> JsonRoundTrip(response),
   timestamp |-> t,
   expiresAt |-> t,
   hits |-> 0,
   modelUsed |-> modelUsed,
   processingTime |-> processingTime]

\* the object set() builds and writes (lines 179-189), as JSON.parse reads it
NewEntry(query, params, response, modelUsed, processingTime, t) ==
  [kind |-> "entry",
   key |-> generateKey(query, params),
   query |-> query,
   params |-> StringifyObject(params),
   response |-> JsonRoundTrip(response),
   timestamp |-> t,
   expiresAt |-> t + TtlMs,
   hits |-> 0,
   modelUsed |-> modelUsed,
   processingTime |-> processingTime]

\* mutant of IsExpired: the comparison the other way round
IsExpired_Inverted(entry, t) == t < entry.expiresAt

\* Date.now() > entry.expiresAt (get line 124, cleanup line 260)
IsExpired(entry, t) == t > entry.expiresAt

\* mutant of HitEntry: a hit renews the entry for one more TTL
HitEntry_Renews(entry) ==
  [entry EXCEPT !.hits = @ + 1, !.expiresAt = @ + TtlMs]

\* mutant of HitEntry: the entry is written back without the increment
HitEntry_NoIncrement(entry) == entry

\* entry.hits++ (line 133)
HitEntry(entry) == [entry EXCEPT !.hits = @ + 1]

\* the stats object of the constructor and of clear()
DefaultStats(t) ==
  [totalEntries |-> 0, totalHits |-> 0, totalMisses |-> 0, totalSaved |-> 0,
   oldestEntry |-> t, newestEntry |-> t, estimatedCostSavings |-> 0,
   savingsError |-> 0]

StatsOfFile(s) == [kind |-> "stats", value |-> s]

\* content of a file after fs.writeFile(path, content): the write succeeds,
\* fails before it touches the file, or fails after truncating it
WriteOutcomes == {"ok", "fail", "torn"}

\* mutant of WriteResult: a write that fails has written the content all the same
WriteResult_FailureWrites(old, content, outcome) ==
  CASE outcome = "ok" -> content
    [] outcome = "fail" -> content
    [] outcome = "torn" -> Corrupt

WriteResult(old, content, outcome) ==
  CASE outcome = "ok" -> content
    [] outcome = "fail" -> old
    [] outcome = "torn" -> Corrupt

\* saveStats() that leaves stats.json as it was
SaveStats_KeepsFile(s, outcome) == statsFile

\* saveStats(): writes this.stats to stats.json; a failure is caught and logged
\* (lines 103-110)
SaveStats(s, outcome) == WriteResult(statsFile, StatsOfFile(s), outcome)

\* the entry files present in the directory (readdir, minus stats.json)
EntryFiles == {k \in Keys : files[k] # NoFile}

----------------------------------------------------------------------------
(* Statistics updates *)

\* a miss that adds 0.013 to the savings as a hit does
RecordMiss_AddsSaving(s) ==
  [s EXCEPT !.totalMisses = @ + 1, !.estimatedCostSavings = @ + HitSavingMilli]

\* this.stats.totalMisses++ (lines 127, 152)
RecordMiss(s) == [s EXCEPT !.totalMisses = @ + 1]

\* The number estimatedCostSavings is a double.  The double 0.013 is
\* Mantissa * 2^-59, and every double from 2^-7 up is a whole number of
\* units of 2^-59; an accumulated value is held as the pair of
\* estimatedCostSavings, 13 thousandths for each 0.013 added, and
\* savingsError, the units by which the double differs from that many times
\* the double 0.013.

\* Mantissa modulo 64, Mantissa being 7493989779944505
MantissaMod64 == 57

\* the gap between neighbouring doubles around k * 0.013, in units: 2^j
\* for a value in [2^(j-7), 2^(j-6))
UlpAt(k) ==
  LET scaled == k * HitSavingMilli * 64
  IN CASE scaled < 1000 -> 1
       [] scaled < 2000 -> 2
       [] scaled < 4000 -> 4
       [] scaled < 8000 -> 8
       [] scaled < 16000 -> 16
       [] OTHER -> 32

\* the double nearest to k * 0.013 + exact units (ties to even), as its
\* difference in units from k times the double 0.013
FloatError(k, exact) ==
  LET ulp == UlpAt(k)
      r2 == (k * MantissaMod64 + exact) % (2 * ulp)
      r == r2 % ulp
      adjust == IF 2 * r < ulp THEN 0 - r
                ELSE IF 2 * r > ulp THEN ulp - r
                ELSE IF r2 >= ulp THEN ulp - r ELSE 0 - r
  IN exact + adjust

\* the number of times 0.013 was added into s.estimatedCostSavings
SavingsCount(s) == s.estimatedCostSavings \div HitSavingMilli

\* this.stats.totalHits++; estimatedCostSavings += 0.013 (lines 137-138)
RecordHit(s) ==
  [s EXCEPT !.totalHits = @ + 1,
            !.estimatedCostSavings = @ + HitSavingMilli,
            !.savingsError = FloatError(SavingsCount(s) + 1, @)]

\* mutant of RecordSet: totalSaved is not counted
RecordSet_NoSaved(s, t) ==
  [s EXCEPT !.totalEntries = @ + 1, !.newestEntry = t]

\* totalEntries++, totalSaved++, newestEntry = now (lines 195-197)
RecordSet(s, t) ==
  [s EXCEPT !.totalEntries = @ + 1, !.totalSaved = @ + 1, !.newestEntry = t]

\* mutant of RecordCleanup: the removed entries are taken off totalSaved too
RecordCleanup_AlsoSaved(s, cleaned) ==
  [s EXCEPT !.totalEntries = @ - cleaned, !.totalSaved = @ - cleaned]

\* this.stats.totalEntries -= cleaned (line 268)
RecordCleanup(s, cleaned) == [s EXCEPT !.totalEntries = @ - cleaned]

----------------------------------------------------------------------------
(* Failures of the file system *)

\* without the directory every write fails by itself; with it, a write fails
\* when the run makes it fail
WriteAllowed(outcome) == IF dirExists THEN outcome \in WriteOutcomes ELSE outcome = "fail"

\* 1 when the write was made to fail, 0 when it succeeded or failed by itself
WriteFaults(outcome) == IF dirExists /\ outcome # "ok" THEN 1 ELSE 0

\* mutant of Guarded: initialize() without its outer try block
Guarded_MkdirThrows(op) ==
  {"stats"} \cup
  CASE op = "initialize" -> {"readStats"}
    [] op = "get" -> {"enoent", "read", "parse", "write", "torn"}
    [] op = "set" -> {"fail", "torn"}
    [] op = "clear" -> {"readdir", "unlink"}
    [] op = "cleanup" -> {"readdir", "read", "parse", "unlink"}
    [] OTHER -> {}

\* mutant of Guarded: saveStats() without its try block
Guarded_SaveStatsThrows(op) ==
  CASE op = "initialize" -> {"mkdir", "readStats", "stats"}
    [] op = "get" -> {"enoent", "read", "parse", "write", "torn"}
    [] op = "set" -> {"fail", "torn"}
    [] op = "clear" -> {"readdir", "unlink"}
    [] op = "cleanup" -> {"readdir", "read", "parse", "unlink"}
    [] OTHER -> {}

\* the failures that each method catches: those of the calls inside its try
\* block (initialize 61-82, get 119-162, set 191-209, clear 216-242, cleanup
\* 251-276), and that of the write of stats.json, caught in saveStats (104-109)
Guarded(op) ==
  {"stats"} \cup
  CASE op = "initialize" -> {"mkdir", "readStats"}
    [] op = "get" -> {"enoent", "read", "parse", "write", "torn"}
    [] op = "set" -> {"fail", "torn"}
    [] op = "clear" -> {"readdir", "unlink"}
    [] op = "cleanup" -> {"readdir", "read", "parse", "unlink"}
    [] OTHER -> {}

----------------------------------------------------------------------------
(* The record of the last call *)

NoKey == <<"none">>

\* op: the method; key: the key of get and set (for clear and cleanup, the file
\* at which they failed); arg: the response set was called with; ret: the value
\* get returned; count: the number cleanup returned (for clear, the number of
\* files it unlinked); rate: the hitRate getStats returned;
\* fault: the file-system call of the method that failed, "stats" if only the
\* write of stats.json failed, "none" if none did;
\* threw: the failure left the method as an exception (a rejected promise);
\* statsWrite: the outcome of the writeFile of saveStats(), "skipped" if the
\* method returned without calling saveStats();
\* streak: for a get, its rank in the run of gets that follows a set of its key
Call(op, key, arg, ret, count, fault, statsOutcome, streak) ==
  LET failed == IF fault = "none" /\ statsOutcome \in {"fail", "torn"}
                THEN "stats" ELSE fault
  IN [op |-> op, key |-> key, arg |-> arg, ret |-> ret, count |-> count,
      rate |-> <<0, 1>>,
      fault |-> failed,
      threw |-> failed \notin ({"none"} \cup Guarded(op)),
      statsWrite |-> statsOutcome,
      streak |-> streak]

----------------------------------------------------------------------------
(* Construction *)

\* calculatePerplexityCost has not been called
NoCostCall == [status |-> "none"]

\* no call is in flight: the calls are made one after the other
NoTasks == <<>>

\* the state after new CacheService(24) on a machine without cache directory
Init ==
  /\ now = 0
  /\ dirExists = FALSE
  /\ files = [k \in Keys |-> NoFile]
  /\ statsFile = NoFile
  /\ stats = DefaultStats(0)
  /\ initialized = FALSE
  /\ last = Call("new", NoKey, Null, Null, 0, "none", "skipped", 0)
  /\ calls = 0
  /\ faults = 0
  /\ costCall = NoCostCall
  /\ tasks = NoTasks

\* a load of stats.json that takes the defaults in place of the file
LoadStats_Defaults(f) == DefaultStats(now)

\* this.stats = JSON.parse(statsData) (lines 66-68): the counters stats.json
\* holds; the numbers of the file are read back as they were written
LoadStats(f) == f.value

\* initialize() (lines 60-83): mkdir, then load stats.json or write the defaults
Initialize(fault, statsOutcome) ==
  /\ ~initialized
  /\ initialized' = TRUE
  /\ CASE fault = "mkdir" ->
            /\ statsOutcome = "skipped"
            /\ faults' = faults + 1
            /\ UNCHANGED <<dirExists, stats, statsFile>>
       [] fault = "none" /\ statsFile.kind = "stats" ->
            /\ statsOutcome = "skipped"
            /\ dirExists' = TRUE
            /\ stats' = LoadStats(statsFile)
            /\ UNCHANGED <<statsFile, faults>>
       [] fault = "readStats" \/ (fault = "none" /\ statsFile.kind # "stats") ->
            /\ fault = "readStats" => statsFile.kind = "stats"
            /\ statsOutcome \in WriteOutcomes
            /\ dirExists' = TRUE
            /\ statsFile' = SaveStats(stats, statsOutcome)
            /\ faults' = faults + (IF fault = "readStats" THEN 1 ELSE 0)
                                + (IF statsOutcome # "ok" THEN 1 ELSE 0)
            /\ UNCHANGED stats
  /\ faults' <= MaxFaults
  /\ last' = Call("initialize", NoKey, Null, Null, 0, fault, statsOutcome, 0)
  /\ UNCHANGED <<now, files, calls, costCall, tasks>>

----------------------------------------------------------------------------
(* get *)

GetFaults == {"none", "read", "write", "torn"}

\* the path get() takes at the file: the failure of readFile ("enoent",
\* "read") or of JSON.parse ("parse"), an expired entry, the failure of the
\* write of the incremented entry ("write", "torn"), or a hit
GetPath(f, fault, t) ==
  CASE ~dirExists \/ f = NoFile -> "enoent"
    [] f = Corrupt -> "parse"
    [] fault = "read" -> "read"
    [] IsExpired(f, t) -> "expired"
    [] fault = "write" -> "write"
    [] fault = "torn" -> "torn"
    [] OTHER -> "hit"

\* the entry file after get() (line 134 writes the entry with hits + 1)
GetFile(f, path) ==
  CASE path = "hit" -> HitEntry(f)
    [] path = "torn" -> Corrupt
    [] OTHER -> f

\* mutant of GetStatsUpdate: the catch block of get() records nothing
GetStatsUpdate_CatchSilent(s, path) ==
  CASE path = "hit" -> RecordHit(s)
    [] path = "expired" -> RecordMiss(s)
    [] OTHER -> s

\* mutant of GetStatsUpdate: a hit is counted as a hit and as a miss
GetStatsUpdate_HitCountsBoth(s, path) ==
  IF path = "hit" THEN RecordMiss(RecordHit(s)) ELSE RecordMiss(s)

\* this.stats after get(): a hit on line 137, a miss on lines 127 and 152
GetStatsUpdate(s, path) ==
  IF path = "hit" THEN RecordHit(s) ELSE RecordMiss(s)

\* the value get() returns (lines 129, 149, 161)
GetReturn(f, path) == IF path = "hit" THEN f.response ELSE Null

\* the rank of a get in the run of gets of one key that directly follows a set
\* of the key that wrote its entry: the gets made before the entry expires and
\* without a failure of their reads and writes of the entry file (0: the get
\* is in no such run)
NextStreak(key, f, fault, t) ==
  IF /\ last.key = key
     /\ \/ last.op = "set" /\ last.fault \in {"none", "stats"}
        \/ last.op = "get" /\ last.streak > 0
     /\ fault = "none"
     /\ ~(IsEntry(f) /\ t > f.expiresAt)
  THEN last.streak + 1
  ELSE 0

get(query, params, fault, statsOutcome) ==
  LET key == generateKey(query, params)
      f == files[key]
      path == GetPath(f, fault, now)
      streak == NextStreak(key, f, fault, now)
  IN /\ initialized
     /\ calls < MaxCalls
     /\ fault \in {"none", path}
     /\ WriteAllowed(statsOutcome)
     /\ files' = [files EXCEPT ![key] = GetFile(f, path)]
     /\ stats' = GetStatsUpdate(stats, path)
     /\ statsFile' = SaveStats(stats', statsOutcome)
     /\ last' = Call("get", key, IF streak > 0 THEN last.arg ELSE Null,
                     GetReturn(f, path), 0,
                     IF path \in {"hit", "expired"} THEN "none" ELSE path,
                     statsOutcome, streak)
     /\ calls' = calls + 1
     /\ faults' = faults + (IF fault # "none" THEN 1 ELSE 0)
                         + WriteFaults(statsOutcome)
     /\ faults' <= MaxFaults
     /\ UNCHANGED <<now, dirExists, initialized, costCall, tasks>>

----------------------------------------------------------------------------
(* set *)

set(query, params, response, modelUsed, processingTime, outcome, statsOutcome) ==
  LET key == generateKey(query, params)
      entry == NewEntry(query, params, response, modelUsed, processingTime, now)
  IN /\ initialized
     /\ calls < MaxCalls
     /\ WriteAllowed(outcome)
     /\ files' = [files EXCEPT ![key] = WriteResult(@, entry, outcome)]
     /\ IF outcome = "ok"
        THEN /\ statsOutcome \in WriteOutcomes
             /\ stats' = RecordSet(stats, now)
             /\ statsFile' = SaveStats(stats', statsOutcome)
        ELSE /\ statsOutcome = "skipped"
             /\ UNCHANGED <<stats, statsFile>>
     /\ last' = Call("set", key, response, Null, 0,
                     IF outcome = "ok" THEN "none" ELSE outcome, statsOutcome, 0)
     /\ calls' = calls + 1
     /\ faults' = faults + WriteFaults(outcome)
                         + (IF statsOutcome \in {"fail", "torn"} THEN 1 ELSE 0)
     /\ faults' <= MaxFaults
     /\ UNCHANGED <<now, dirExists, initialized, costCall, tasks>>

----------------------------------------------------------------------------
(* clear *)

\* mutant of ExpiredAmong: cleanup() takes an entry as expired from the
\* instant expiresAt on
ExpiredAmong_FromBoundary(scanned, t) ==
  {k \in scanned : IsEntry(files[k]) /\ t >= files[k].expiresAt}

\* the entry files cleanup() unlinks among those it scans at time t
ExpiredAmong(scanned, t) ==
  {k \in scanned : IsEntry(files[k]) /\ IsExpired(files[k], t)}

\* mutant of ClearFiles: the loop skips every file, as if none ended in .json
ClearFiles_SkipsAll(done) == files

\* the directory after the unlinks of clear() (lines 219-223)
ClearFiles(done) == [k \in Keys |-> IF k \in done THEN NoFile ELSE files[k]]

\* mutant of CleanupFiles: every file scanned is unlinked, expired or not
CleanupFiles_UnlinksScanned(scanned, t) ==
  [k \in Keys |-> IF k \in scanned THEN NoFile ELSE files[k]]

\* the directory after the unlinks of cleanup() (lines 254-265)
CleanupFiles(scanned, t) ==
  [k \in Keys |-> IF k \in ExpiredAmong(scanned, t) THEN NoFile ELSE files[k]]

\* clear() (lines 215-243).  fault: the call that fails; victim: the file whose
\* unlink fails; done: the files unlinked before it, readdir giving the files
\* in no specified order
clear(fault, done, victim, statsOutcome) ==
  /\ initialized
  /\ calls < MaxCalls
  /\ CASE fault = "readdir" ->
            /\ done = {} /\ victim = NoKey /\ statsOutcome = "skipped"
            /\ faults' = faults + (IF dirExists THEN 1 ELSE 0)
            /\ UNCHANGED <<files, stats, statsFile>>
       [] fault = "unlink" ->
            /\ statsOutcome = "skipped"
            /\ files' = ClearFiles(done)
            /\ faults' = faults + 1
            /\ UNCHANGED <<stats, statsFile>>
       [] fault = "none" ->
            /\ files' = ClearFiles(done)
            /\ stats' = DefaultStats(now)
            /\ statsFile' = SaveStats(stats', statsOutcome)
            /\ faults' = faults + WriteFaults(statsOutcome)
  /\ faults' <= MaxFaults
  /\ last' = Call("clear", victim, Null, Null, Cardinality(done), fault,
                  statsOutcome, 0)
  /\ calls' = calls + 1
  /\ UNCHANGED <<now, dirExists, initialized, costCall, tasks>>

----------------------------------------------------------------------------
(* cleanup *)

\* this.stats after the scan: the block of lines 267-272
CleanupStats(s, cleaned) == IF cleaned > 0 THEN RecordCleanup(s, cleaned) ELSE s

\* cleanup() (lines 248-279).  fault: the call that fails; victim: the file at
\* which readFile, JSON.parse or unlink fails; done: the files scanned before
\* it, readdir giving the files in no specified order
cleanup(fault, done, victim, statsOutcome) ==
  LET cleaned == Cardinality(ExpiredAmong(done, now))
  IN
  /\ initialized
  /\ calls < MaxCalls
  /\ CASE fault = "readdir" ->
            /\ done = {} /\ victim = NoKey /\ statsOutcome = "skipped"
            /\ faults' = faults + (IF dirExists THEN 1 ELSE 0)
            /\ UNCHANGED <<files, stats, statsFile>>
       [] fault \in {"read", "parse", "unlink"} ->
            /\ statsOutcome = "skipped"
            /\ faults' = faults + (IF fault = "parse" THEN 0 ELSE 1)
            /\ UNCHANGED <<stats, statsFile>>
            /\ files' = CleanupFiles(done, now)
       [] fault = "none" ->
            /\ files' = CleanupFiles(done, now)
            /\ stats' = CleanupStats(stats, cleaned)
            /\ IF cleaned > 0
               THEN /\ statsOutcome \in WriteOutcomes
                    /\ statsFile' = SaveStats(stats', statsOutcome)
               ELSE /\ statsOutcome = "skipped"
                    /\ UNCHANGED statsFile
            /\ faults' = faults + (IF statsOutcome \in {"fail", "torn"}
                                   THEN 1 ELSE 0)
  /\ faults' <= MaxFaults
  /\ last' = Call("cleanup", victim, Null, Null, cleaned, fault, statsOutcome, 0)
  /\ calls' = calls + 1
  /\ UNCHANGED <<now, dirExists, initialized, costCall, tasks>>

----------------------------------------------------------------------------
(* getStats *)

\* a hitRate that counts the misses in place of the hits
HitRate_OfMisses(s) ==
  LET totalRequests == s.totalHits + s.totalMisses
  IN IF totalRequests > 0 THEN <<s.totalMisses * 100, totalRequests>> ELSE <<0, 1>>

\* hitRate of getStats() (lines 285-286), as the fraction <<numerator, denominator>>
HitRate(s) ==
  LET totalRequests == s.totalHits + s.totalMisses
  IN IF totalRequests > 0 THEN <<s.totalHits * 100, totalRequests>> ELSE <<0, 1>>

getStats ==
  /\ initialized
  /\ calls < MaxCalls
  /\ last' = [Call("getStats", NoKey, Null, Null, 0, "none", "skipped", 0)
                EXCEPT !.rate = HitRate(stats)]
  /\ calls' = calls + 1
  /\ UNCHANGED <<now, dirExists, files, statsFile, stats, initialized, faults,
                 costCall, tasks>>

----------------------------------------------------------------------------
(* The clock *)

\* the instants at which calls are made: the construction, one ms later, and
\* one TTL after each of the two
Instants == {0, 1, TtlMs, TtlMs + 1}

\* time passes between two calls, up to the instant t
Tick(t) ==
  /\ t > now
  /\ now' = t
  /\ UNCHANGED <<dirExists, files, statsFile, stats, initialized, last, calls,
                 faults, costCall, tasks>>

----------------------------------------------------------------------------
(* The specification: the calls of one caller, one after the other *)

\* the outcomes of the write of stats.json that can follow
StatsOutcomes == {o \in WriteOutcomes : WriteAllowed(o)}

DoInitialize ==
  \/ Initialize("mkdir", "skipped")
  \/ Initialize("none", "skipped")
  \/ \E fault \in {"none", "readStats"}, so \in WriteOutcomes : Initialize(fault, so)

DoGet ==
  \E qp \in Inputs, fault \in GetFaults, so \in StatsOutcomes :
    get(qp[1], qp[2], fault, so)

DoSet ==
  \E qp \in Inputs, r \in Responses, m \in Models, pt \in ProcessingTimes :
    \/ \E so \in WriteOutcomes : set(qp[1], qp[2], r, m, pt, "ok", so)
    \/ \E o \in {"fail", "torn"} : set(qp[1], qp[2], r, m, pt, o, "skipped")

\* the scans of the directory that fail at a file: the file, and the files
\* scanned before it
FailedScans == {sc \in EntryFiles \X SUBSET EntryFiles : sc[1] \notin sc[2]}

DoClear ==
  \/ /\ dirExists
     /\ \E so \in WriteOutcomes : clear("none", EntryFiles, NoKey, so)
  \/ /\ dirExists
     /\ \E sc \in FailedScans : clear("unlink", sc[2], sc[1], "skipped")
  \/ clear("readdir", {}, NoKey, "skipped")

\* the file at which the scan of cleanup() can fail, and how
CleanupFaultAt(k) ==
  IF files[k] = Corrupt THEN {"parse"}
  ELSE IF IsExpired(files[k], now) THEN {"read", "unlink"} ELSE {"read"}

DoCleanup ==
  \/ /\ dirExists
     /\ \A k \in EntryFiles : files[k] # Corrupt
     /\ \E so \in WriteOutcomes \cup {"skipped"} :
          cleanup("none", EntryFiles, NoKey, so)
  \/ /\ dirExists
     /\ \E sc \in FailedScans :
          /\ \A k \in sc[2] : files[k] # Corrupt
          /\ \E fault \in CleanupFaultAt(sc[1]) :
               cleanup(fault, sc[2], sc[1], "skipped")
  \/ cleanup("readdir", {}, NoKey, "skipped")

DoTick == \E t \in Instants : Tick(t)

Next ==
  \/ DoInitialize
  \/ DoGet
  \/ DoSet
  \/ DoClear
  \/ DoCleanup
  \/ getStats
  \/ DoTick

Spec == Init /\ [][Next]_vars

----------------------------------------------------------------------------
(* C1: set followed by n gets *)

\* C1, as stated: after a set(q,p,r) that wrote its entry, the n-th of the gets
\* of (q,p) that directly follow it before the entry expires returns r
\* unchanged, and the hit count of the entry file is n.
C1_ReturnsResponseUnchanged ==
  (last.op = "get" /\ last.streak > 0) =>
    /\ last.ret = last.arg
    /\ IsEntry(files[last.key])
    /\ files[last.key].hits = last.streak

\* C1, amended: the n-th get returns r as JSON.parse reads it back from the
\* entry file (r itself for a JSON value, null for NaN), and the hit count of
\* the entry file is n.
C1_ReturnsStoredResponse ==
  (last.op = "get" /\ last.streak > 0) =>
    /\ last.ret = JsonRoundTrip(last.arg)
    /\ IsEntry(files[last.key])
    /\ files[last.key].hits = last.streak

\* a second get in a row returned the response of the set before them
C1_Witness ==
  /\ last.op = "get"
  /\ last.streak = 2
  /\ last.arg = "r1"
  /\ last.ret = "r1"
  /\ files[last.key].hits = 2

----------------------------------------------------------------------------
(* Steps *)

\* the step is a call of the method op
CallOf(op) == calls' = calls + 1 /\ last'.op = op

\* none of the file-system calls of the call failed
NoFailure(c) == c.fault = "none"

Counters == {"totalEntries", "totalHits", "totalMisses", "totalSaved",
             "estimatedCostSavings"}

----------------------------------------------------------------------------
(* C2: get on an expired entry *)

\* C2: a get on an entry whose expiresAt is earlier than the current time
\* returns null and adds one to totalMisses; the entry file stays as it is,
\* hit count included; totalHits and estimatedCostSavings stay as they are.
C2_ExpiredGetIsMissAndKeepsFile ==
  [][(/\ CallOf("get")
      /\ dirExists
      /\ IsEntry(files[last'.key])
      /\ now > files[last'.key].expiresAt)
     => /\ last'.ret = Null
        /\ stats'.totalMisses = stats.totalMisses + 1
        /\ stats'.totalHits = stats.totalHits
        /\ stats'.estimatedCostSavings = stats.estimatedCostSavings
        /\ files' = files]_vars

\* a get has missed on an expired entry that an earlier get had hit, and the
\* file is still there with its hit count
C2_Witness ==
  /\ last.op = "get"
  /\ last.ret = Null
  /\ last.fault = "none"
  /\ IsEntry(files[last.key])
  /\ now > files[last.key].expiresAt
  /\ files[last.key].hits = 1
  /\ stats.totalMisses = 1
  /\ stats.totalHits = 1

----------------------------------------------------------------------------
(* C3: cleanup removes the expired entries *)

\* the entries on disk whose expiresAt is earlier than the current time
ExpiredOnDisk == {k \in Keys : IsEntry(files[k]) /\ now > files[k].expiresAt}

----------------------------------------------------------------------------
(* C4: clear *)

\* C4: after a clear() (none of whose file-system calls fails) no entry file
\* remains, stats.json is present, and the five counters are zero in memory
\* and in stats.json.
C4_ClearEmptiesAndZeroes ==
  (last.op = "clear" /\ NoFailure(last)) =>
    /\ \A k \in Keys : files[k] = NoFile
    /\ statsFile.kind = "stats"
    /\ \A c \in Counters : stats[c] = 0 /\ statsFile.value[c] = 0

\* a clear has unlinked an entry file
C4_Witness ==
  /\ last.op = "clear"
  /\ NoFailure(last)
  /\ last.count >= 1
  /\ statsFile = StatsOfFile(stats)

----------------------------------------------------------------------------
(* C5: failures in get *)

\* C5: when get() fails to read the entry file, to parse it or to write back
\* the incremented entry, it returns null, adds one to totalMisses, leaves
\* totalHits and estimatedCostSavings unchanged and raises no error.
C5_GetFailureIsMiss ==
  [][(CallOf("get") /\ last'.fault \in {"enoent", "read", "parse", "write", "torn"})
     => /\ last'.ret = Null
        /\ ~last'.threw
        /\ stats'.totalMisses = stats.totalMisses + 1
        /\ stats'.totalHits = stats.totalHits
        /\ stats'.estimatedCostSavings = stats.estimatedCostSavings]_vars

\* a get has failed to write back the entry that an earlier get had hit
C5_Witness ==
  /\ last.op = "get"
  /\ last.fault \in {"write", "torn"}
  /\ last.ret = Null
  /\ stats.totalHits = 1
  /\ stats.totalMisses = 1

----------------------------------------------------------------------------
(* C6: failures in set, clear and cleanup *)

\* C6: set, clear and cleanup raise no error, whichever of their directory
\* reads, file reads, writes, unlinks and stats writes fails; cleanup returns a
\* count; nothing is retried: a failed write leaves its file as the failure
\* left it, and a failed write of an entry leaves the statistics alone.
C6_WritersNeverThrow ==
  [][(CallOf("set") \/ CallOf("clear") \/ CallOf("cleanup"))
     => /\ ~last'.threw
        /\ last'.count \in Nat
        /\ (last'.op = "set" /\ last'.fault \in {"fail", "torn"})
             => /\ files'[last'.key] \in {files[last'.key], Corrupt}
                /\ stats' = stats
                /\ statsFile' = statsFile
        /\ last'.fault = "stats" => statsFile' \in {statsFile, Corrupt}]_vars

\* a set has returned although its write of stats.json had failed
C6_Witness ==
  /\ last.op = "set"
  /\ last.fault = "stats"
  /\ ~last.threw
  /\ IsEntry(files[last.key])
  /\ statsFile # StatsOfFile(stats)

----------------------------------------------------------------------------
(* C7: the key and the order of the properties of params *)

\* C7: the key does not depend on the order in which the properties of params
\* were inserted: the entry stored for (q, params) is the file of every
\* (q, params') with the same properties as params.
C7_KeyIgnoresInsertionOrder ==
  \A k \in Keys :
    IsEntry(files[k]) =>
      \A qp \in Inputs :
        (qp[1] = files[k].query /\ PairsOf(qp[2]) = PairsOf(files[k].params))
          => generateKey(qp[1], qp[2]) = k

----------------------------------------------------------------------------
(* C8: the counters never decrease *)

\* C8, as stated: no call of get, set, cleanup or getStats lowers any of the
\* five counters.
C8_NoCounterDecreases ==
  [][(CallOf("get") \/ CallOf("set") \/ CallOf("cleanup") \/ CallOf("getStats"))
     => \A c \in Counters : stats'[c] >= stats[c]]_vars

\* C8, amended: no call of get, set, cleanup or getStats lowers totalHits,
\* totalMisses, totalSaved or estimatedCostSavings; of these calls only
\* cleanup lowers totalEntries, by the number of files it returns; clear sets
\* the five counters to zero.
C8_OnlyCleanupLowersTotalEntries ==
  [][/\ (CallOf("get") \/ CallOf("set") \/ CallOf("cleanup") \/ CallOf("getStats"))
          => /\ \A c \in Counters \ {"totalEntries"} : stats'[c] >= stats[c]
             /\ stats'.totalEntries < stats.totalEntries
                  => /\ last'.op = "cleanup"
                     /\ stats'.totalEntries = stats.totalEntries - last'.count
     /\ (CallOf("clear") /\ NoFailure(last'))
          => \A c \in Counters : stats'[c] = 0]_vars

\* a cleanup has lowered totalEntries below totalSaved
C8_Witness ==
  /\ last.op = "cleanup"
  /\ last.count = 1
  /\ stats.totalSaved = 2
  /\ stats.totalEntries = 1

----------------------------------------------------------------------------
(* C9: set *)

\* C9: a set(q,p,r,model,time) that writes its entry file leaves on disk an
\* entry with the response r (as JSON), hit count 0, creation time now and
\* expiresAt = now + ttl in place of any entry of the key, adds one to
\* totalEntries and to totalSaved, and sets newestEntry to now.
C9_SetWritesFreshEntry ==
  [][(CallOf("set") /\ last'.fault \in {"none", "stats"})
     => /\ IsEntry(files'[last'.key])
        /\ files'[last'.key].key = last'.key
        /\ files'[last'.key].response = JsonRoundTrip(last'.arg)
        /\ files'[last'.key].hits = 0
        /\ files'[last'.key].timestamp = now
        /\ files'[last'.key].expiresAt = now + TtlMs
        /\ \A k \in Keys \ {last'.key} : files'[k] = files[k]
        /\ stats'.totalEntries = stats.totalEntries + 1
        /\ stats'.totalSaved = stats.totalSaved + 1
        /\ stats'.newestEntry = now]_vars

\* a set has replaced an entry that had been hit: one file, two entries counted
C9_Witness ==
  /\ last.op = "set"
  /\ NoFailure(last)
  /\ calls = 3
  /\ stats.totalHits = 1
  /\ stats.totalEntries = 2
  /\ stats.totalSaved = 2
  /\ Cardinality(EntryFiles) = 1
  /\ files[last.key].hits = 0
  /\ files[last.key].timestamp = 1

----------------------------------------------------------------------------
(* C10: cleanup and totalEntries *)

\* C10: every cleanup() lowers totalEntries by the count it returns, which is
\* the number of entry files it deleted, also when the scan fails at a file.
C10_CleanupLowersTotalEntriesByCount ==
  [][CallOf("cleanup")
     => /\ last'.count = Cardinality({k \in Keys : files[k] # NoFile /\ files'[k] = NoFile})
        /\ stats'.totalEntries = stats.totalEntries - last'.count]_vars

----------------------------------------------------------------------------
(* C11: which calls rewrite stats.json *)

\* the methods that change the cache
Mutators == {"get", "set", "cleanup", "clear"}

\* C11 as stated: every get, set, cleanup and clear call writes stats.json
\* before it returns, a cleanup that removes nothing and a set whose entry
\* write fails included
C11_EveryCallRewritesStats ==
  [][(\E op \in Mutators : CallOf(op)) => last'.statsWrite # "skipped"]_vars

\* C11, amended: every get calls saveStats(); set, cleanup and clear call it
\* exactly when they changed this.stats, that is set when its entry write
\* succeeded, cleanup when its scan completed and removed at least one entry,
\* clear when it completed; a write of stats.json that succeeds leaves the
\* whole of this.stats in the file
C11_RewritesStatsWhenStatsChanged ==
  [][(\E op \in Mutators : CallOf(op)) =>
       /\ last'.statsWrite # "skipped" <=>
            \/ last'.op = "get"
            \/ last'.op = "set" /\ last'.fault \in {"none", "stats"}
            \/ last'.op = "clear" /\ last'.fault \in {"none", "stats"}
            \/ /\ last'.op = "cleanup"
               /\ last'.fault \in {"none", "stats"}
               /\ last'.count > 0
       /\ last'.statsWrite = "skipped" => UNCHANGED <<stats, statsFile>>
       /\ last'.statsWrite = "ok" => statsFile' = StatsOfFile(stats')]_vars

\* a cleanup that found nothing to remove has returned without writing
\* stats.json, after gets and sets that did write it
C11_Witness ==
  /\ last.op = "cleanup"
  /\ last.fault = "none"
  /\ last.count = 0
  /\ last.statsWrite = "skipped"
  /\ statsFile = StatsOfFile(stats)
  /\ stats.totalEntries > 0

----------------------------------------------------------------------------
(* C12: hitRate *)

\* C12: the hitRate getStats() returns is totalHits / (totalHits +
\* totalMisses) * 100: it is 0 when there were neither hits nor misses, 100
\* when there were hits and no miss, and it lies between 0 and 100
C12_HitRateIsDerived ==
  last.op = "getStats" =>
    LET h == stats.totalHits
        m == stats.totalMisses
        num == last.rate[1]
        den == last.rate[2]
    IN /\ den > 0
       /\ h + m > 0 => num * (h + m) = h * 100 * den
       /\ h + m = 0 => num = 0
       /\ (m = 0 /\ h > 0) => num = 100 * den
       /\ 0 <= num /\ num <= 100 * den

\* getStats() has returned a hitRate of 100 after a hit and no miss
C12_Witness ==
  /\ last.op = "getStats"
  /\ stats.totalHits > 0
  /\ stats.totalMisses = 0
  /\ last.rate[1] = 100 * last.rate[2]

----------------------------------------------------------------------------
(* C16: the cache directory cannot be created *)

\* the construction has completed without the cache directory
Disabled == initialized /\ ~dirExists

\* C16: when mkdir fails in initialize(), the construction raises no error
\* and the cache is disabled: every later get returns null, every later set
\* stores nothing (no entry file and no stats.json ever appear), and no call
\* raises an error
C16_MkdirFailureDisablesCache ==
  Disabled =>
    /\ ~last.threw
    /\ last.op = "get" => last.ret = Null
    /\ \A k \in Keys : files[k] = NoFile
    /\ statsFile = NoFile

\* after a failed mkdir, a get has missed and a set has returned
C16_Witness ==
  /\ Disabled
  /\ last.op = "set"
  /\ last.arg = "r1"
  /\ stats.totalMisses > 0
  /\ ~last.threw

----------------------------------------------------------------------------
(* The research router: executeResearchRouter over the cache *)

\* the requests of the research_router tool, after the defaults of its schema
RouterRequests ==
  {[query |-> q, focus |-> "tools", budget_conscious |-> "true",
    include_reasoning |-> "false", max_models |-> "2"] : q \in Queries}

\* the params the router passes to get and set
cacheParams(req) ==
  << <<"focus", req.focus>>, <<"budget_conscious", req.budget_conscious>>,
     <<"include_reasoning", req.include_reasoning>>,
     <<"max_models", req.max_models>> >>

\* the test made on the value get returned that takes nothing for a response
Truthy_Never(v) == FALSE

\* if (cachedResponse): the value get returned is taken for a response
Truthy(v) == v \notin {Null, Undefined}

\* the outcomes of perplexitySearchLogic: it returns or it throws
UpstreamOutcomes == {"ok", "error"}

\* the result the router builds: from the upstream answer, or from the
\* fallback text its catch block pushes when the upstream call threw
RouterResult(outcome) == IF outcome = "ok" THEN "r1" ELSE "fallback"

\* the router is between two requests: the cache is constructed and the last
\* request has returned, after its set or with the cached response of its get
RouterIdle ==
  \/ last.op \in {"initialize", "set"}
  \/ last.op = "get" /\ Truthy(last.ret)

\* the request in progress, from the key of its get
RequestOf(key) ==
  {req \in RouterRequests : generateKey(req.query, cacheParams(req)) = key}

\* a request starts: the router asks the cache
RouterGet ==
  /\ RouterIdle
  /\ \E req \in RouterRequests, fault \in GetFaults, so \in StatsOutcomes :
       get(req.query, cacheParams(req), fault, so)

\* the cache gave nothing: the router calls perplexitySearchLogic, and builds
\* its result whether the call returned or threw
RouterUpstream ==
  /\ last.op = "get"
  /\ ~Truthy(last.ret)
  /\ \E outcome \in UpstreamOutcomes :
       last' = Call("upstream", last.key, RouterResult(outcome), last.ret, 0,
                    IF outcome = "ok" THEN "none" ELSE "upstream", "skipped", 0)
  /\ UNCHANGED <<now, dirExists, files, statsFile, stats, initialized, calls,
                 faults, costCall, tasks>>

\* the router stores its result and returns it
RouterSet ==
  /\ last.op = "upstream"
  /\ \E req \in RequestOf(last.key), pt \in ProcessingTimes :
       \/ \E so \in WriteOutcomes :
            set(req.query, cacheParams(req), last.arg, "perplexity", pt, "ok", so)
       \/ \E o \in {"fail", "torn"} :
            set(req.query, cacheParams(req), last.arg, "perplexity", pt, o,
                "skipped")

NextRouter ==
  \/ DoInitialize
  \/ RouterGet
  \/ RouterUpstream
  \/ RouterSet
  \/ DoTick

SpecRouter == Init /\ [][NextRouter]_vars

----------------------------------------------------------------------------
(* C13: when the router writes an entry *)

\* C13 as stated: the router calls set only after its get returned nothing
\* and the upstream call succeeded, and after an upstream call that failed no
\* entry is written
C13_SetOnlyAfterUpstreamSuccess ==
  [][/\ CallOf("set") =>
          /\ last.op = "upstream"
          /\ ~Truthy(last.ret)
          /\ last.fault = "none"
     /\ (last.op = "upstream" /\ last.fault = "upstream") => files' = files]_vars

----------------------------------------------------------------------------
(* C14: two identical requests *)

\* the entry of the request that has just returned is on disk and not expired
StoredAndFresh ==
  /\ last.op = "set"
  /\ NoFailure(last)
  /\ IsEntry(files[last.key])
  /\ ~IsExpired(files[last.key], now)

\* C14: on an empty cache the get of a request misses and its set stores the
\* result; when a request has missed and stored its result, the same request
\* made next within the TTL (no file-system call failing) hits: its get
\* returns the stored result, no upstream call follows, and stats.json then
\* holds at least one hit and one miss
C14_SecondRequestHits ==
  [][/\ (CallOf("get") /\ files[last'.key] = NoFile) => ~Truthy(last'.ret)
     /\ (CallOf("set") /\ NoFailure(last')) =>
          /\ IsEntry(files'[last'.key])
          /\ files'[last'.key].response = last.arg
     /\ (StoredAndFresh /\ CallOf("get") /\ last'.key = last.key
           /\ NoFailure(last')) =>
          /\ last'.ret = files[last.key].response
          /\ last'.ret = last.arg
          /\ Truthy(last'.ret)
          /\ statsFile'.kind = "stats"
          /\ statsFile'.value.totalHits >= 1
          /\ statsFile'.value.totalMisses >= 1
     /\ (last.op = "get" /\ Truthy(last.ret)) => last'.op # "upstream"]_vars

\* the second of two identical requests has returned the result the first
\* stored, and stats.json holds the hit and the miss
C14_Witness ==
  /\ last.op = "get"
  /\ last.ret = "r1"
  /\ NoFailure(last)
  /\ calls = 3
  /\ statsFile = StatsOfFile(stats)
  /\ stats.totalHits = 1
  /\ stats.totalMisses = 1
  /\ stats.totalSaved = 1

----------------------------------------------------------------------------
(* Restart: a new CacheService over the directory of an earlier one *)

\* the process ends and another is started: the module is loaded again and
\* new CacheService(24) runs over the directory as the earlier instance left it
Restart ==
  /\ initialized
  /\ initialized' = FALSE
  /\ stats' = DefaultStats(now)
  /\ last' = Call("new", NoKey, Null, Null, 0, "none", "skipped", 0)
  /\ UNCHANGED <<now, dirExists, files, statsFile, calls, faults, costCall, tasks>>

\* the calls that fill stats.json, and the restart; the instances run within
\* the same millisecond, the clock having no part in the load of stats.json
NextRestart ==
  \/ DoInitialize
  \/ DoGet
  \/ DoSet
  \/ Restart

SpecRestart == Init /\ [][NextRestart]_vars

----------------------------------------------------------------------------
(* C15: the statistics survive a restart *)

\* C15: when initialize() finds a stats.json written whole by an earlier
\* instance (and none of its file-system calls fails), this.stats holds
\* exactly the counters of the file once it has completed, and the file is
\* left as it was
C15_StatsSurviveRestart ==
  [][(~initialized /\ initialized' /\ statsFile.kind = "stats"
        /\ NoFailure(last')) =>
       /\ stats' = statsFile.value
       /\ \A c \in Counters : stats'[c] = statsFile.value[c]
       /\ statsFile' = statsFile]_vars

\* a second instance has initialized over a stats.json that holds a hit, a
\* miss and a saved entry, and holds these counters
C15_Witness ==
  /\ last.op = "initialize"
  /\ NoFailure(last)
  /\ initialized
  /\ statsFile = StatsOfFile(stats)
  /\ stats.totalHits = 1
  /\ stats.totalMisses = 1
  /\ stats.totalSaved = 1
  /\ stats.totalEntries = 1
  /\ stats.estimatedCostSavings = HitSavingMilli

----------------------------------------------------------------------------
(* The cost tracker: calculatePerplexityCost *)

PER_MILLION == 1000000
PER_THOUSAND == 1000

\* amounts of money are held in units of a tenth of a millionth of a dollar,
\* one decimal more than toFixed(6) keeps; the token and query counts are
\* whole numbers, so that each term is a whole number of units
UnitsPerDollar == 10000000
UnitsPerMicro == 10

\* an optional property: <<>> when it is undefined, <<v>> when its value is v
Absent == <<>>

\* if (x) on an optional number: it is defined and not 0
TruthyNumber(m) == m # Absent /\ m[1] # 0

\* if (apiTier) on a string, null or undefined
TruthyString(s) == s \notin {Null, Undefined, ""}

ModelPricing(input, output, reasoning, citation, requestFeesByTier, searchQueryFee) ==
  [tokenPricing |-> [input |-> input, output |-> output,
                     reasoning |-> reasoning, citation |-> citation],
   actionPricing |-> [requestFeesByTier |-> requestFeesByTier,
                      searchQueryFee |-> searchQueryFee]]

RequestFeesByTier(low, medium, high) ==
  <<[low |-> low, medium |-> medium, high |-> high]>>

\* a pricing table whose sonar-deep-research row has both fee shapes
modelPricingSheet_BothShapes ==
  ("sonar" :> ModelPricing(1, 1, Absent, Absent, RequestFeesByTier(5, 8, 12), Absent))
  @@ ("sonar-pro" :>
        ModelPricing(3, 15, Absent, Absent, RequestFeesByTier(6, 10, 14), Absent))
  @@ ("sonar-reasoning" :>
        ModelPricing(1, 5, Absent, Absent, RequestFeesByTier(5, 8, 12), Absent))
  @@ ("sonar-reasoning-pro" :>
        ModelPricing(2, 8, Absent, Absent, RequestFeesByTier(6, 10, 14), Absent))
  @@ ("sonar-deep-research" :>
        ModelPricing(2, 8, <<3>>, <<2>>, RequestFeesByTier(6, 10, 14), <<5>>))

\* the pricing table: dollars per million tokens, dollars per 1000 requests
\* by tier, dollars per 1000 search queries
modelPricingSheet ==
  ("sonar" :> ModelPricing(1, 1, Absent, Absent, RequestFeesByTier(5, 8, 12), Absent))
  @@ ("sonar-pro" :>
        ModelPricing(3, 15, Absent, Absent, RequestFeesByTier(6, 10, 14), Absent))
  @@ ("sonar-reasoning" :>
        ModelPricing(1, 5, Absent, Absent, RequestFeesByTier(5, 8, 12), Absent))
  @@ ("sonar-reasoning-pro" :>
        ModelPricing(2, 8, Absent, Absent, RequestFeesByTier(6, 10, 14), Absent))
  @@ ("sonar-deep-research" :> ModelPricing(2, 8, <<3>>, <<2>>, Absent, <<5>>))

\* names every object inherits from Object.prototype
ObjectPrototypeNames == {"constructor", "toString"}

\* obj[key] on an object literal: its own property, a property inherited
\* from Object.prototype (a function, not a value of the table), or undefined
GetProperty(obj, key) ==
  IF key \in DOMAIN obj THEN [kind |-> "own", value |-> obj[key]]
  ELSE IF key \in ObjectPrototypeNames THEN [kind |-> "inherited"]
  ELSE [kind |-> "undefined"]

\* (tokens / PER_MILLION) * rate, in units
TokenCost(tokens, rate) == tokens * rate * (UnitsPerDollar \div PER_MILLION)

\* a request fee charged per million requests
RequestFee_PerMillion(fee) == fee * (UnitsPerDollar \div PER_MILLION)

\* requestFeePerThousand / PER_THOUSAND, in units
RequestFee(fee) == fee * (UnitsPerDollar \div PER_THOUSAND)

\* a search fee that is never charged
SearchFee_Free(queries, fee) == 0

\* (usage.search_queries / PER_THOUSAND) * searchQueryFee, in units
SearchFee(queries, fee) == queries * fee * (UnitsPerDollar \div PER_THOUSAND)

\* the error of the floating-point sum, in units: far below half a millionth
\* of a dollar for the token counts of a request
FloatNoise == {-1, 0, 1}

\* mutant of ToFixed6: the digits after the sixth are cut off, not rounded
ToFixed6_Truncates(units) == units \div UnitsPerMicro

\* parseFloat(cost.toFixed(6)): the nearest number of millionths of a dollar
ToFixed6(units) == (units + (UnitsPerMicro \div 2)) \div UnitsPerMicro

\* values calculatePerplexityCost hands back: a number (in millionths of a
\* dollar), NaN, null, or nothing when it threw
NumberCost(micro) == [kind |-> "number", micro |-> micro]
NaNCost == [kind |-> "NaN"]
NullCost == [kind |-> "null"]
NoCost == [kind |-> "none"]

\* calculatePerplexityCost(model, usage, apiTier, context) (lines 438-492):
\* how it ended, what it returned, and the levels at which it logged
calculatePerplexityCost(model, usage, apiTier, noise) ==
  LET pricing == GetProperty(modelPricingSheet, model)
  IN
  CASE pricing.kind = "undefined" ->
         [status |-> "returned", ret |-> NullCost, logs |-> <<"error">>]
    [] pricing.kind = "inherited" ->
         \* tokenPricing is undefined: tokenPricing.input is a TypeError
         [status |-> "threw", ret |-> NoCost, logs |-> <<>>]
    [] OTHER ->
         LET tokenPricing == pricing.value.tokenPricing
             actionPricing == pricing.value.actionPricing
             tokens ==
               TokenCost(usage.prompt_tokens, tokenPricing.input)
               + TokenCost(usage.completion_tokens, tokenPricing.output)
               + (IF TruthyNumber(tokenPricing.reasoning)
                     /\ TruthyNumber(usage.reasoning_tokens)
                  THEN TokenCost(usage.reasoning_tokens[1],
                                 tokenPricing.reasoning[1])
                  ELSE 0)
               + (IF TruthyNumber(tokenPricing.citation)
                     /\ TruthyNumber(usage.citation_tokens)
                  THEN TokenCost(usage.citation_tokens[1],
                                 tokenPricing.citation[1])
                  ELSE 0)
             requestFeePerThousand ==
               IF actionPricing.requestFeesByTier # Absent /\ TruthyString(apiTier)
               THEN GetProperty(actionPricing.requestFeesByTier[1], apiTier)
               ELSE [kind |-> "skipped"]
             fee == IF requestFeePerThousand.kind = "own"
                    THEN RequestFee(requestFeePerThousand.value) ELSE 0
             search ==
               IF TruthyNumber(actionPricing.searchQueryFee)
                  /\ TruthyNumber(usage.search_queries)
               THEN SearchFee(usage.search_queries[1],
                              actionPricing.searchQueryFee[1])
               ELSE 0
             logs == (IF requestFeePerThousand.kind = "undefined"
                      THEN <<"warning">> ELSE <<>>) \o <<"debug">>
         IN IF requestFeePerThousand.kind = "inherited"
            \* a function divided by 1000 is NaN, and so is the sum
            THEN [status |-> "returned", ret |-> NaNCost, logs |-> logs]
            ELSE [status |-> "returned",
                  ret |-> NumberCost(ToFixed6(tokens + fee + search + noise)),
                  logs |-> logs]

\* model names: those of the table, one that is no property of an object,
\* and one that every object inherits
CostModels == DOMAIN modelPricingSheet \cup {"not-a-model", "constructor"}

\* tiers: those of the tier maps, null and undefined, one that is no property
\* of an object, and one that every object inherits
ApiTiers == {"low", "medium", "high", Null, Undefined, "ultra", "toString"}

\* usage data: token and query counts, the optional ones absent, 0 or positive
Usages ==
  [prompt_tokens : {0, 1234, 1000000},
   completion_tokens : {0, 500},
   reasoning_tokens : {Absent, <<0>>, <<2000>>},
   citation_tokens : {Absent, <<3000>>},
   search_queries : {Absent, <<0>>, <<7>>}]

\* a call of calculatePerplexityCost is about to be made, on a fresh machine
InitCost ==
  /\ now = 0
  /\ dirExists = FALSE
  /\ files = [k \in Keys |-> NoFile]
  /\ statsFile = NoFile
  /\ stats = DefaultStats(0)
  /\ initialized = FALSE
  /\ last = Call("new", NoKey, Null, Null, 0, "none", "skipped", 0)
  /\ calls = 0
  /\ faults = 0
  /\ costCall \in [model : CostModels, usage : Usages, apiTier : ApiTiers,
                   status : {"pending"}, ret : {NoCost}, logs : {<<>>}]
  /\ tasks = NoTasks

\* the call runs to its end
Calculate ==
  /\ costCall.status = "pending"
  /\ \E noise \in FloatNoise :
       LET end == calculatePerplexityCost(costCall.model, costCall.usage,
                                          costCall.apiTier, noise)
       IN costCall' = [costCall EXCEPT !.status = end.status, !.ret = end.ret,
                                       !.logs = end.logs]
  /\ UNCHANGED <<now, dirExists, files, statsFile, stats, initialized, last,
                 calls, faults, tasks>>

NextCost == Calculate

SpecCost == InitCost /\ [][NextCost]_vars

----------------------------------------------------------------------------
(* C17: the cost of a call of a model with tiered request fees *)

PricingOf(model) == modelPricingSheet[model]

\* the models of the table whose row has request fees by tier
TieredModels ==
  {m \in DOMAIN modelPricingSheet :
     PricingOf(m).actionPricing.requestFeesByTier # Absent}

TierMapOf(model) == PricingOf(model).actionPricing.requestFeesByTier[1]

\* promptTokens / 1e6 * inputRate + completionTokens / 1e6 * outputRate, in
\* millionths of a dollar
InputOutputMicro(model, usage) ==
  usage.prompt_tokens * PricingOf(model).tokenPricing.input
  + usage.completion_tokens * PricingOf(model).tokenPricing.output

\* C17: for a model with tiered request fees and a tier of its tier map,
\* calculatePerplexityCost returns, in millionths of a dollar, promptTokens *
\* inputRate + completionTokens * outputRate + feePer1000 * 1000; for sonar,
\* 1,000,000 prompt tokens, no completion tokens and tier low it is 1.005000
C17_TieredCostFormula ==
  (/\ costCall.status = "returned"
   /\ costCall.model \in TieredModels
   /\ costCall.apiTier \in DOMAIN TierMapOf(costCall.model)) =>
    /\ costCall.ret.kind = "number"
    /\ costCall.ret.micro =
         InputOutputMicro(costCall.model, costCall.usage)
         + TierMapOf(costCall.model)[costCall.apiTier] * 1000
    /\ (/\ costCall.model = "sonar"
        /\ costCall.usage.prompt_tokens = 1000000
        /\ costCall.usage.completion_tokens = 0
        /\ costCall.apiTier = "low") => costCall.ret.micro = 1005000

\* the call for sonar with 1,000,000 prompt tokens and tier low has returned
\* 1.005000
C17_Witness ==
  /\ costCall.status = "returned"
  /\ costCall.model = "sonar"
  /\ costCall.usage.prompt_tokens = 1000000
  /\ costCall.usage.completion_tokens = 0
  /\ costCall.usage.reasoning_tokens = <<2000>>
  /\ costCall.apiTier = "low"
  /\ costCall.ret = NumberCost(1005000)

----------------------------------------------------------------------------
(* C18: the cost of a call of sonar-deep-research *)

\* count * rate when the optional count is present, in millionths of a dollar
OptionalMicro(count, rate) == IF count = Absent THEN 0 ELSE count[1] * rate

\* C18: for sonar-deep-research the cost is the input and output token cost
\* plus the reasoning, citation and search-query terms of the usage fields
\* that are present, whatever the tier argument
C18_DeepResearchCostFormula ==
  (costCall.status # "pending" /\ costCall.model = "sonar-deep-research") =>
    LET row == PricingOf(costCall.model)
        usage == costCall.usage
    IN /\ costCall.status = "returned"
       /\ costCall.ret.kind = "number"
       /\ costCall.ret.micro =
            InputOutputMicro(costCall.model, usage)
            + OptionalMicro(usage.reasoning_tokens, row.tokenPricing.reasoning[1])
            + OptionalMicro(usage.citation_tokens, row.tokenPricing.citation[1])
            + OptionalMicro(usage.search_queries,
                            row.actionPricing.searchQueryFee[1] * 1000)

\* a call for sonar-deep-research with reasoning, citation and search usage
\* and a tier argument has returned the sum of the five terms
C18_Witness ==
  /\ costCall.status = "returned"
  /\ costCall.model = "sonar-deep-research"
  /\ costCall.usage = [prompt_tokens |-> 1234, completion_tokens |-> 500,
                       reasoning_tokens |-> <<2000>>,
                       citation_tokens |-> <<3000>>, search_queries |-> <<7>>]
  /\ costCall.apiTier = "high"
  /\ costCall.ret = NumberCost(53468)

----------------------------------------------------------------------------
(* C19: a model that is not in the pricing table *)

\* C19 as stated: for every model name that is not in the pricing table the
\* call returns null, logs an error and does not throw
C19_UnknownModelReturnsNull ==
  (costCall.status # "pending" /\ costCall.model \notin DOMAIN modelPricingSheet) =>
    /\ costCall.status = "returned"
    /\ costCall.ret = NullCost
    /\ costCall.logs = <<"error">>

----------------------------------------------------------------------------
(* C20: a tier that is missing or not in the tier map *)

\* C20 as stated: for a model with tiered request fees and a tier that is
\* null, undefined or no key of its tier map, the call returns the token cost
\* alone, logs a warning and does not throw
C20_MissingTierOmitsFeeAndWarns ==
  (/\ costCall.status # "pending"
   /\ costCall.model \in TieredModels
   /\ costCall.apiTier \notin DOMAIN TierMapOf(costCall.model)) =>
    /\ costCall.status = "returned"
    /\ costCall.ret = NumberCost(InputOutputMicro(costCall.model, costCall.usage))
    /\ \E i \in DOMAIN costCall.logs : costCall.logs[i] = "warning"

----------------------------------------------------------------------------
(* C21: one fee shape per row *)

HasTierFees(row) == row.actionPricing.requestFeesByTier # Absent
HasSearchFee(row) == row.actionPricing.searchQueryFee # Absent

\* the token terms of the cost of a call, in millionths of a dollar
TokenMicro(model, usage) ==
  LET tokenPricing == PricingOf(model).tokenPricing
  IN InputOutputMicro(model, usage)
     + (IF tokenPricing.reasoning = Absent THEN 0
        ELSE OptionalMicro(usage.reasoning_tokens, tokenPricing.reasoning[1]))
     + (IF tokenPricing.citation = Absent THEN 0
        ELSE OptionalMicro(usage.citation_tokens, tokenPricing.citation[1]))

\* the request fees of a row, in millionths of a dollar
TierFeesMicro(row) ==
  IF HasTierFees(row)
  THEN {row.actionPricing.requestFeesByTier[1][t] * 1000 :
          t \in DOMAIN row.actionPricing.requestFeesByTier[1]}
  ELSE {}

\* C21: every row of the pricing table has request fees by tier or a search
\* query fee, never both and never neither, and what a call returns above its
\* token cost is nothing, one request fee of the row, or the search fee of the
\* row: at most one action fee
C21_OneFeeShapePerRow ==
  /\ \A m \in DOMAIN modelPricingSheet :
       HasTierFees(PricingOf(m)) # HasSearchFee(PricingOf(m))
  /\ (/\ costCall.status = "returned"
      /\ costCall.model \in DOMAIN modelPricingSheet
      /\ costCall.ret.kind = "number") =>
       LET row == PricingOf(costCall.model)
           extra == costCall.ret.micro - TokenMicro(costCall.model, costCall.usage)
       IN \/ extra = 0
          \/ HasTierFees(row) /\ ~HasSearchFee(row) /\ extra \in TierFeesMicro(row)
          \/ /\ HasSearchFee(row) /\ ~HasTierFees(row)
             /\ extra = OptionalMicro(costCall.usage.search_queries,
                                      row.actionPricing.searchQueryFee[1] * 1000)

\* a call for sonar-deep-research with search queries and the tier low has
\* returned its token cost and the search fee alone
C21_Witness ==
  /\ costCall.status = "returned"
  /\ costCall.model = "sonar-deep-research"
  /\ costCall.apiTier = "low"
  /\ costCall.usage.search_queries = <<7>>
  /\ costCall.usage.reasoning_tokens = Absent
  /\ costCall.usage.citation_tokens = Absent
  /\ costCall.ret.kind = "number"
  /\ costCall.ret.micro = InputOutputMicro(costCall.model, costCall.usage) + 35000

----------------------------------------------------------------------------
(* Long runs of hits: the cache after a set and a number of hits *)

\* hits made on the entry before the run that is checked
MaxHits == 10

SavingsQuery == "q1"

RECURSIVE StatsAfterHits(_)
\* this.stats after initialize(), a set at time 0 and n hits
StatsAfterHits(n) ==
  IF n = 0 THEN RecordSet(DefaultStats(0), 0) ELSE RecordHit(StatsAfterHits(n - 1))

RECURSIVE EntryAfterHits(_)
\* the entry file after the set and n hits
EntryAfterHits(n) ==
  IF n = 0 THEN NewEntry(SavingsQuery, ParamsFB, "r1", "sonar-pro", 1200, 0)
  ELSE HitEntry(EntryAfterHits(n - 1))

\* the cache after initialize(), set(q1, params, r1) and n gets of the same
\* key that hit, none of the file-system calls having failed; calls and
\* faults count from this state on
InitSavings ==
  \E n \in 0..MaxHits :
    LET key == generateKey(SavingsQuery, ParamsFB)
    IN /\ now = 0
       /\ dirExists = TRUE
       /\ files = [k \in Keys |-> IF k = key THEN EntryAfterHits(n) ELSE NoFile]
       /\ stats = StatsAfterHits(n)
       /\ statsFile = StatsOfFile(stats)
       /\ initialized = TRUE
       /\ last = IF n = 0
                 THEN Call("set", key, "r1", Null, 0, "none", "ok", 0)
                 ELSE Call("get", key, "r1", "r1", 0, "none", "ok", n)
       /\ calls = 0
       /\ faults = 0
       /\ costCall = NoCostCall
       /\ tasks = NoTasks

\* the calls that follow, within the millisecond of the set
NextSavings ==
  \/ DoGet
  \/ DoSet
  \/ DoCleanup

SpecSavings == InitSavings /\ [][NextSavings]_vars

----------------------------------------------------------------------------
(* C22: estimatedCostSavings and totalHits *)

\* 0.013 * n as a double, in units from n times the double 0.013
ProductError(n) == FloatError(n, 0)

SavingsFollowHits ==
  /\ stats.estimatedCostSavings = HitSavingMilli * stats.totalHits
  /\ stats.totalHits <= 10 => stats.savingsError = ProductError(stats.totalHits)
  /\ stats.totalHits > 10 =>
       LET d == stats.savingsError - ProductError(stats.totalHits)
       IN 0 <= d /\ d <= 16 * (stats.totalHits - 10)

----------------------------------------------------------------------------
(* C23: the entry files *)

\* the fingerprint of the query and params an entry file holds
OwnFingerprint(entry) == generateKey(entry.query, entry.params)

\* C23: every entry file on disk has expiresAt = timestamp + ttl and a key
\* field equal to the fingerprint of its own query and params, which is also
\* the name of the file; the entries get writes back with their hits keep this.
C23_EntryFilesWellFormed ==
  \A k \in Keys :
    IsEntry(files[k]) =>
      /\ files[k].expiresAt = files[k].timestamp + TtlMs
      /\ files[k].key = OwnFingerprint(files[k])
      /\ files[k].key = k

\* a get has written back, with its hit, an entry that was set one ms after
\* the construction
C23_Witness ==
  /\ last.op = "get"
  /\ last.ret = "r1"
  /\ IsEntry(files[last.key])
  /\ files[last.key].hits = 1
  /\ files[last.key].timestamp = 1
  /\ files[last.key].expiresAt = TtlMs + 1
  /\ files[last.key].key = last.key

----------------------------------------------------------------------------
(* C24: hits and misses count the gets *)

\* totalHits + totalMisses
TotalRequests(s) == s.totalHits + s.totalMisses

\* the get of this step finds an entry that is not expired and fails at none
\* of its reads and writes of the entry file
GetFindsFresh ==
  /\ dirExists
  /\ IsEntry(files[last'.key])
  /\ ~IsExpired(files[last'.key], now)
  /\ last'.fault \in {"none", "stats"}

\* a get changes exactly one of totalHits and totalMisses, by one: totalHits
\* when it returns the cached response, totalMisses when it finds no file, an
\* expired entry or an I/O error
GetCountsOnce ==
  CallOf("get") =>
    IF GetFindsFresh
    THEN /\ last'.ret = files[last'.key].response
         /\ stats'.totalHits = stats.totalHits + 1
         /\ stats'.totalMisses = stats.totalMisses
    ELSE /\ last'.ret = Null
         /\ stats'.totalMisses = stats.totalMisses + 1
         /\ stats'.totalHits = stats.totalHits

\* a clear that ran to its end (the write of stats.json may have failed)
ClearCompletes == CallOf("clear") /\ last'.fault \in {"none", "stats"}

\* C24, as stated: every get changes exactly one of totalHits and totalMisses
\* by one, and totalHits + totalMisses is the number of gets completed since
\* the construction on an empty directory or since the last clear: 0 at the
\* construction and after every clear, one more after every get, and the same
\* after every other step.
C24_CountsGetsSinceLastClear ==
  /\ TotalRequests(stats) = 0
  /\ [][/\ GetCountsOnce
        /\ CallOf("clear") => TotalRequests(stats') = 0
        /\ (~CallOf("get") /\ ~CallOf("clear"))
             => /\ stats'.totalHits = stats.totalHits
                /\ stats'.totalMisses = stats.totalMisses]_vars

\* C24, amended: totalHits + totalMisses is the number of gets completed
\* since the construction on an empty directory or since the last clear that
\* ran to its end; a clear that fails at readdir or at an unlink leaves both
\* counters as they were.
C24_CountsGetsSinceCompletedClear ==
  /\ TotalRequests(stats) = 0
  /\ [][/\ GetCountsOnce
        /\ ClearCompletes => TotalRequests(stats') = 0
        /\ (~CallOf("get") /\ ~ClearCompletes)
             => /\ stats'.totalHits = stats.totalHits
                /\ stats'.totalMisses = stats.totalMisses]_vars

\* a set, then a get that returned the response, then a get that missed
C24_Witness ==
  /\ last.op = "get"
  /\ last.ret = Null
  /\ calls = 3
  /\ stats.totalHits = 1
  /\ stats.totalMisses = 1
  /\ stats.totalSaved = 1

----------------------------------------------------------------------------
(* C25: a hit changes the hit count only *)

\* the fields of an entry file other than its hit count
SameButHits(e, f) == [e EXCEPT !.hits = 0] = [f EXCEPT !.hits = 0]

\* the step is a set of key k that wrote its entry
SetWrites(k) ==
  CallOf("set") /\ last'.key = k /\ last'.fault \in {"none", "stats"}

\* C25: a get that hits adds one to the hit count of the entry file and
\* changes nothing else in it; an entry file keeps its response, query,
\* params, timestamp and expiresAt until a set writes the key again; and a get
\* made later than timestamp + ttl on the entry is a miss.
C25_HitChangesOnlyHits ==
  [][/\ (CallOf("get") /\ GetFindsFresh)
          => /\ files'[last'.key] = [files[last'.key] EXCEPT !.hits = @ + 1]
             /\ \A k \in Keys \ {last'.key} : files'[k] = files[k]
     /\ \A k \in Keys :
          (IsEntry(files[k]) /\ IsEntry(files'[k]) /\ ~SetWrites(k))
             => SameButHits(files[k], files'[k])
     /\ \A k \in Keys :
          (/\ CallOf("get") /\ last'.key = k
           /\ IsEntry(files[k])
           /\ now > files[k].timestamp + TtlMs)
             => /\ last'.ret = Null
                /\ stats'.totalMisses = stats.totalMisses + 1
                /\ files'[k] = files[k]]_vars

\* an entry set at 0 and hit once in its lifetime is a miss one ms after
\* the end of that lifetime, and the file is as the hit left it
C25_Witness ==
  /\ last.op = "get"
  /\ last.ret = Null
  /\ NoFailure(last)
  /\ calls = 3
  /\ now = TtlMs + 1
  /\ IsEntry(files[last.key])
  /\ files[last.key].hits = 1
  /\ files[last.key].timestamp = 0
  /\ stats.totalHits = 1
  /\ stats.totalMisses = 1

----------------------------------------------------------------------------
(* C26: who removes entry files *)

\* the step removes the file of key k from the directory
Removes(k) == files[k] # NoFile /\ files'[k] = NoFile

\* C26: a file leaves the directory only in a clear, or in a cleanup when it
\* holds an entry that is expired at the time of the call; no get, set or
\* getStats removes a file.
C26_OnlyCleanupAndClearRemove ==
  [][\A k \in Keys :
       Removes(k) =>
         \/ CallOf("clear")
         \/ /\ CallOf("cleanup")
            /\ IsEntry(files[k])
            /\ now > files[k].expiresAt]_vars

\* a cleanup has removed the entry set at 0 and kept the one set one ms
\* later, which lives until the instant of the call
C26_Witness ==
  /\ last.op = "cleanup"
  /\ last.count = 1
  /\ now = TtlMs + 1
  /\ Cardinality(EntryFiles) = 1
  /\ \E k \in EntryFiles :
       /\ IsEntry(files[k])
       /\ files[k].timestamp = 1
       /\ files[k].expiresAt = now

----------------------------------------------------------------------------
(* C27: get and cleanup agree on expiry *)

\* a get of key k made now, without failure, would return the entry
WouldHit(k) == GetPath(files[k], "none", now) = "hit"

\* a cleanup made now, without failure, would unlink the file of key k
WouldDelete(k) == k \in ExpiredAmong(EntryFiles, now)

\* C27: at every instant, the boundary now = expiresAt included, an entry
\* that get would return as a hit is one that cleanup would not delete, and
\* an entry that cleanup would delete is a miss for get; the gets that hit
\* and the cleanups that delete bear it out.
C27_GetAndCleanupAgree ==
  /\ [](\A k \in Keys :
          (dirExists /\ IsEntry(files[k])) => (WouldHit(k) <=> ~WouldDelete(k)))
  /\ [][/\ (CallOf("get") /\ GetFindsFresh) => ~WouldDelete(last'.key)
        /\ \A k \in Keys :
             (CallOf("cleanup") /\ Removes(k)) => ~WouldHit(k)]_vars

\* at the boundary: a get made at now = expiresAt has hit, and a cleanup at
\* the same instant would delete nothing
C27_Witness ==
  /\ last.op = "get"
  /\ last.ret = "r1"
  /\ now = TtlMs
  /\ IsEntry(files[last.key])
  /\ files[last.key].expiresAt = now
  /\ files[last.key].hits = 1
  /\ ~WouldDelete(last.key)
  /\ WouldHit(last.key)

----------------------------------------------------------------------------
(* C28: keys are independent *)

\* what generateKey hashes of a (query, params) pair
Serialization(qp) == <<qp[1], StringifyObject(qp[2])>>

\* the step is a get of the pair qp
GetOf(qp) ==
  \E fault \in GetFaults, so \in WriteOutcomes : get(qp[1], qp[2], fault, so)

\* the step is a set of the pair qp
SetOf(qp) ==
  \E r \in Responses, m \in Models, pt \in ProcessingTimes,
     o \in WriteOutcomes, so \in WriteOutcomes \cup {"skipped"} :
       set(qp[1], qp[2], r, m, pt, o, so)

\* what a get of the pair qp made at time t, without failure, returns when
\* the directory holds the files fs
LaterGet(qp, fs, t) ==
  LET f == fs[generateKey(qp[1], qp[2])]
  IN GetReturn(f, GetPath(f, "none", t))

\* C28: for two (query, params) pairs with different serializations, a set or
\* a get of the first leaves the entry file of the second as it was, and with
\* it what a get of the second returns at any later time.
C28_OtherKeyUntouched ==
  [][\A qp1 \in Inputs, qp2 \in Inputs :
       (Serialization(qp1) # Serialization(qp2) /\ (GetOf(qp1) \/ SetOf(qp1)))
         => /\ files'[generateKey(qp2[1], qp2[2])]
                 = files[generateKey(qp2[1], qp2[2])]
            /\ \A t \in Instants :
                 LaterGet(qp2, files', t) = LaterGet(qp2, files, t)]_vars

\* a set of one pair has been made beside the entry of the other pair, which
\* keeps its hit
C28_Witness ==
  /\ last.op = "set"
  /\ NoFailure(last)
  /\ last.key = generateKey("q1", ParamsFB)
  /\ files[last.key].hits = 0
  /\ IsEntry(files[generateKey("q1", ParamsBF)])
  /\ files[generateKey("q1", ParamsBF)].hits = 1
  /\ LaterGet(<<"q1", ParamsBF>>, files, now) = "r1"

----------------------------------------------------------------------------
(* C29: totalEntries and the entry files *)

\* C29: in a run from an empty directory in which no file-system call has
\* failed, totalEntries is the number of entry files in the directory after
\* every call, also after a set that overwrites the entry of its key.
C29_TotalEntriesIsFileCount ==
  (initialized /\ faults = 0) => stats.totalEntries = Cardinality(EntryFiles)

----------------------------------------------------------------------------
(* Restarts over a directory that outlives its instance *)

\* the calls that leave entry files and stats.json in the directory, the
\* restart, the time that passes and the cleanup of the next instance
NextRecovery ==
  \/ DoInitialize
  \/ DoSet
  \/ DoCleanup
  \/ DoTick
  \/ Restart

SpecRecovery == Init /\ [][NextRecovery]_vars

----------------------------------------------------------------------------
(* C30: totalEntries is not negative *)

\* C30: totalEntries is never negative, also when an instance starts with
\* the default counters over a directory in which an earlier instance left
\* entry files and no readable stats.json, and runs cleanup once they expired.
C30_TotalEntriesNeverNegative == stats.totalEntries >= 0

----------------------------------------------------------------------------
(* C36: failed writes and the statistics *)

\* the step is a set whose write of the entry file failed
SetFails == CallOf("set") /\ last'.fault \in {"fail", "torn"}

\* the step is a clear that failed at readdir or at an unlink
ClearFails == CallOf("clear") /\ last'.fault \in {"readdir", "unlink"}

\* what a get of key k made now, without failure, returns when the directory
\* holds the files fs
VisibleAt(k, fs) == GetReturn(fs[k], GetPath(fs[k], "none", now))

\* C36, as stated: a set that fails to write its entry file leaves
\* totalEntries, totalSaved and newestEntry as they were and no entry of its
\* key is visible to a later get; a clear that fails while listing or
\* deleting files resets no counter.
C36_FailedSetLeavesNoEntry ==
  [][/\ SetFails
          => /\ stats' = stats
             /\ GetPath(files'[last'.key], "none", now) # "hit"
     /\ ClearFails => stats' = stats]_vars

\* C36, amended: the statistics stay as they were, in memory and in
\* stats.json, and the entry of the failed set is not visible to a later get:
\* a write that failed before it touched the file leaves the file as it was,
\* so that an earlier entry of the key is still returned, and a write that
\* failed midway leaves a file that is a miss.
C36_FailedSetLeavesEarlierEntry ==
  [][/\ SetFails
          => /\ stats' = stats
             /\ statsFile' = statsFile
             /\ last'.fault = "fail" =>
                  /\ files' = files
                  /\ VisibleAt(last'.key, files') = VisibleAt(last'.key, files)
             /\ last'.fault = "torn" =>
                  /\ files'[last'.key] = Corrupt
                  /\ VisibleAt(last'.key, files') = Null
     /\ ClearFails => (stats' = stats /\ statsFile' = statsFile)]_vars

\* a set has failed before it touched the file of an entry set earlier, and
\* the earlier entry is what a get returns
C36_Witness ==
  /\ last.op = "set"
  /\ last.fault = "fail"
  /\ last.arg = "NaN"
  /\ dirExists
  /\ IsEntry(files[last.key])
  /\ VisibleAt(last.key, files) = "r1"
  /\ stats.totalEntries = 1
  /\ stats.totalSaved = 1

----------------------------------------------------------------------------
(* C37: calculatePerplexityCost is a function of its arguments *)

\* the optional fields of the usage data
OptionalUsageFields == {"reasoning_tokens", "citation_tokens", "search_queries"}

\* how a call ended and what it returned
CostOutcome(end) == [status |-> end.status, ret |-> end.ret]

\* C37: the outcome of a call is the same whatever the rounding of its
\* floating-point sum, so that calls with equal arguments return equal
\* results; and for a model of the table the call returns, and returns what
\* the call returns whose usage has 0 in place of an omitted optional field.
C37_CostIsDeterministic ==
  costCall.status \notin {"none", "pending"} =>
    /\ \A noise \in FloatNoise :
         CostOutcome(calculatePerplexityCost(costCall.model, costCall.usage,
                                             costCall.apiTier, noise))
           = CostOutcome(costCall)
    /\ costCall.model \in DOMAIN modelPricingSheet =>
         /\ costCall.status = "returned"
         /\ \A field \in OptionalUsageFields :
              costCall.usage[field] = Absent =>
                \A noise \in FloatNoise :
                  calculatePerplexityCost(
                      costCall.model,
                      [costCall.usage EXCEPT ![field] = <<0>>],
                      costCall.apiTier, noise).ret = costCall.ret

\* a call for sonar-deep-research without reasoning tokens and search
\* queries has returned the cost of its prompt, completion and citation tokens
C37_Witness ==
  /\ costCall.status = "returned"
  /\ costCall.model = "sonar-deep-research"
  /\ costCall.usage = [prompt_tokens |-> 1234, completion_tokens |-> 500,
                       reasoning_tokens |-> Absent,
                       citation_tokens |-> <<3000>>,
                       search_queries |-> Absent]
  /\ costCall.apiTier = Null
  /\ costCall.ret = NumberCost(12468)

----------------------------------------------------------------------------
(* Overlapping calls *)

\* The methods are async functions on one thread: a call runs from one await
\* to the next without interruption, and between the two the calls in flight
\* take turns in any order.  A file-system call is issued with its arguments
\* (the JSON text is built when writeFile is called), takes effect on the
\* directory at some later step, and the call that awaits it resumes at a
\* step after that.  tasks[0] is the initialize() the constructor starts and
\* does not await, tasks[1..MaxTasks] are the calls of the callers.

\* calls of the callers in flight at once
MaxTasks == 2

Callers == 1..MaxTasks

\* the pair the overlapping gets and sets are called with, and the response set
AsyncInput == <<"q1", ParamsFB>>
AsyncKey == generateKey(AsyncInput[1], AsyncInput[2])
OtherKey == generateKey("q1", ParamsBF)
AsyncResponse == "r2"

\* op: the method; pc: the await at which the call stands ("X": the
\* file-system call X is issued, "XDone": it has taken effect and the call has
\* not resumed, "loopEnd": the last file-system call of the loop has taken
\* effect and the call has not resumed); key: the file the call is at; entry: the content readFile
\* gave, or the entry handed to writeFile; listing: the files of the readdir
\* still to visit; cleaned: the counter of cleanup; payload: the stats handed
\* to the writeFile of saveStats; ret: what the call returned;
\* sawInit: initialize() had finished when the call started;
\* replaced: the response of the entry that the write of the entry
\* overwrote, "nothing" if the file was not there;
\* early: the call changed the counters before initialize() had finished
IdleTask ==
  [op |-> "none", pc |-> "idle", key |-> NoKey, entry |-> NoFile,
   listing |-> {}, cleaned |-> 0, payload |-> NoFile, ret |-> Null,
   sawInit |-> FALSE, replaced |-> Null, early |-> FALSE]

\* the next free slot: the callers take the slots in order
CanStart(t) ==
  /\ tasks[t].pc = "idle"
  /\ \A u \in Callers : u < t => tasks[u].pc # "idle"

StartedTask(op, pc) ==
  [IdleTask EXCEPT !.op = op, !.pc = pc, !.sawInit = initialized]

\* what the overlapping steps leave alone
AsyncFrame == UNCHANGED <<now, dirExists, last, calls, faults, costCall>>

\* the call has returned ret: its local variables are gone
Returned(task, ret) ==
  [IdleTask EXCEPT !.op = task.op, !.pc = "done", !.ret = ret,
                   !.sawInit = task.sawInit, !.replaced = task.replaced,
                   !.early = task.early]

\* saveStats() is called: JSON.stringify(this.stats) is handed to writeFile
\* (line 105)
IssueSaveStats(task, s) ==
  [task EXCEPT !.pc = "saveStats", !.payload = StatsOfFile(s),
               !.entry = NoFile, !.listing = {}]

----------------------------------------------------------------------------
(* initialize(), started by the constructor *)

\* mkdir has completed, readFile of stats.json is issued (lines 63-67)
InitMkdirDone ==
  /\ tasks[0].pc = "mkdir"
  /\ tasks' = [tasks EXCEPT ![0].pc = "readStats"]
  /\ UNCHANGED <<files, stats, statsFile, initialized>>
  /\ AsyncFrame

\* readFile reads stats.json
InitReadLands ==
  /\ tasks[0].pc = "readStats"
  /\ tasks' = [tasks EXCEPT ![0].pc = "readStatsDone", ![0].entry = statsFile]
  /\ UNCHANGED <<files, stats, statsFile, initialized>>
  /\ AsyncFrame

\* this.stats = JSON.parse(statsData) (line 68), or the catch block that
\* saves the defaults (line 71); entry keeps what was loaded
InitAfterRead ==
  /\ tasks[0].pc = "readStatsDone"
  /\ IF tasks[0].entry.kind = "stats"
     THEN /\ stats' = LoadStats(tasks[0].entry)
          /\ initialized' = TRUE
          /\ tasks' = [tasks EXCEPT ![0] =
                         [Returned(@, "loaded") EXCEPT
                            !.entry = tasks[0].entry]]
     ELSE /\ tasks' = [tasks EXCEPT ![0] =
                         [IssueSaveStats(@, stats) EXCEPT !.ret = "defaults"]]
          /\ UNCHANGED <<stats, initialized>>
  /\ UNCHANGED <<files, statsFile>>
  /\ AsyncFrame

----------------------------------------------------------------------------
(* the steps of the calls *)

\* A call that resumes after an await and touches nothing but its own
\* variables on its way to the next await (it examines what it read, moves on
\* in its loop, issues the next file-system call) is taken to resume at the
\* step at which the awaited call takes effect: no other call can tell when
\* it resumed.  A call that resumes to change this.stats does so in a step of
\* its own.

\* the writeFile of saveStats() takes effect; the call that awaits it
\* resumes only to log and return (lines 103-110)
SaveStatsLands(t) ==
  /\ tasks[t].pc = "saveStats"
  /\ statsFile' = tasks[t].payload
  /\ tasks' = [tasks EXCEPT ![t] = Returned(@, tasks[t].ret)]
  /\ initialized' = (initialized \/ t = 0)
  /\ UNCHANGED <<files, stats>>
  /\ AsyncFrame

\* what a write of an entry file replaces
Overwritten(f) == IF IsEntry(f) THEN f.response ELSE "nothing"

\* writeFile of the entry file takes effect (get line 134, set line 192)
WriteLands(t) ==
  /\ tasks[t].pc = "writeFile"
  /\ files' = [files EXCEPT ![tasks[t].key] = tasks[t].entry]
  /\ tasks' = [tasks EXCEPT ![t].pc = "writeFileDone", ![t].entry = NoFile,
                            ![t].replaced = Overwritten(files[tasks[t].key])]
  /\ UNCHANGED <<stats, statsFile, initialized>>
  /\ AsyncFrame

\* mutant of Remaining: the loop does not move on to the next file
Remaining_KeepsAll(listing, k) == listing

\* for (const file of files): the files after file k
Remaining(listing, k) == listing \ {k}

\* the loop of clear (lines 219-223) and of cleanup (lines 254-265) comes to
\* its next file, in the order of the listing, which is any order, and issues
\* the unlink or the readFile of the file; after the last file the call
\* stands at the end of its loop
Visit(t, task) ==
  IF task.listing = {}
  THEN tasks' = [tasks EXCEPT ![t] = [task EXCEPT !.pc = "loopEnd"]]
  ELSE \E k \in task.listing :
         tasks' = [tasks EXCEPT ![t] =
                     [task EXCEPT
                        !.pc = IF task.op = "clear" THEN "unlink" ELSE "readFile",
                        !.key = k,
                        !.listing = Remaining(task.listing, k)]]

\* readdir takes effect (clear line 217, cleanup line 252)
ReaddirLands(t) ==
  /\ tasks[t].pc = "readdir"
  /\ Visit(t, [tasks[t] EXCEPT !.listing = EntryFiles])
  /\ UNCHANGED <<files, stats, statsFile, initialized>>
  /\ AsyncFrame

\* unlink takes effect, or fails on a file that is gone: the exception ends
\* the call in its catch block (clear line 222, cleanup lines 261-262)
UnlinkLands(t) ==
  /\ tasks[t].pc = "unlink"
  /\ IF files[tasks[t].key] = NoFile
     THEN /\ tasks' = [tasks EXCEPT ![t] = Returned(@, "failed")]
          /\ UNCHANGED files
     ELSE /\ files' = [files EXCEPT ![tasks[t].key] = NoFile]
          /\ Visit(t, [tasks[t] EXCEPT !.cleaned = @ + 1])
  /\ UNCHANGED <<stats, statsFile, initialized>>
  /\ AsyncFrame

----------------------------------------------------------------------------
(* get, step by step *)

\* get(query, params) is called: readFile is issued (lines 115-120)
GetStarts(t) ==
  /\ CanStart(t)
  /\ tasks' = [tasks EXCEPT ![t] =
                 [StartedTask("get", "readFile") EXCEPT !.key = AsyncKey]]
  /\ UNCHANGED <<files, stats, statsFile, initialized>>
  /\ AsyncFrame

\* readFile of get takes effect (line 120); on an entry that is not expired
\* the call goes on to entry.hits++ and the writeFile of the entry
\* (lines 121-134); ret is the entry.response it will return at line 149
GetReadLands(t) ==
  /\ tasks[t].op = "get"
  /\ tasks[t].pc = "readFile"
  /\ LET f == files[tasks[t].key]
     IN tasks' = [tasks EXCEPT ![t] =
          IF GetPath(f, "none", now) = "hit"
          THEN [@ EXCEPT !.pc = "writeFile", !.entry = HitEntry(f),
                         !.ret = f.response]
          ELSE [@ EXCEPT !.pc = "readFileDone", !.entry = f]]
  /\ UNCHANGED <<files, stats, statsFile, initialized>>
  /\ AsyncFrame

\* get resumes after a readFile that found no entry or an expired one:
\* totalMisses++ and saveStats() (lines 127-128, 152-153)
GetMisses(t) ==
  /\ tasks[t].op = "get"
  /\ tasks[t].pc = "readFileDone"
  /\ stats' = RecordMiss(stats)
  /\ tasks' = [tasks EXCEPT ![t] =
                 [IssueSaveStats(@, stats') EXCEPT !.early = ~initialized]]
  /\ UNCHANGED <<files, statsFile, initialized>>
  /\ AsyncFrame

\* get resumes after the writeFile of the entry: totalHits++, the savings,
\* saveStats() (lines 137-139)
GetAfterWrite(t) ==
  /\ tasks[t].op = "get"
  /\ tasks[t].pc = "writeFileDone"
  /\ stats' = RecordHit(stats)
  /\ tasks' = [tasks EXCEPT ![t] =
                 [IssueSaveStats(@, stats') EXCEPT !.early = ~initialized]]
  /\ UNCHANGED <<files, statsFile, initialized>>
  /\ AsyncFrame

----------------------------------------------------------------------------
(* set, step by step *)

\* set(...) is called: the entry is built and handed to writeFile
\* (lines 175-192)
SetStarts(t) ==
  /\ CanStart(t)
  /\ \E m \in Models, pt \in ProcessingTimes :
       tasks' = [tasks EXCEPT ![t] =
                   [StartedTask("set", "writeFile") EXCEPT
                      !.key = AsyncKey,
                      !.entry = NewEntry(AsyncInput[1], AsyncInput[2],
                                         AsyncResponse, m, pt, now)]]
  /\ UNCHANGED <<files, stats, statsFile, initialized>>
  /\ AsyncFrame

\* set resumes after writeFile: the counters and saveStats() (lines 195-198)
SetAfterWrite(t) ==
  /\ tasks[t].op = "set"
  /\ tasks[t].pc = "writeFileDone"
  /\ stats' = RecordSet(stats, now)
  /\ tasks' = [tasks EXCEPT ![t] =
                 [IssueSaveStats(@, stats') EXCEPT
                    !.ret = "stored", !.early = ~initialized]]
  /\ UNCHANGED <<files, statsFile, initialized>>
  /\ AsyncFrame

----------------------------------------------------------------------------
(* clear, step by step *)

\* clear() is called: readdir is issued (line 217)
ClearStarts(t) ==
  /\ CanStart(t)
  /\ tasks' = [tasks EXCEPT ![t] = StartedTask("clear", "readdir")]
  /\ UNCHANGED <<files, stats, statsFile, initialized>>
  /\ AsyncFrame

\* clear after its loop: the reset of the stats and saveStats()
\* (lines 226-236)
ClearResets(t) ==
  /\ tasks[t].op = "clear"
  /\ tasks[t].pc = "loopEnd"
  /\ stats' = DefaultStats(now)
  /\ tasks' = [tasks EXCEPT ![t] =
                 [IssueSaveStats(@, stats') EXCEPT !.ret = "cleared"]]
  /\ UNCHANGED <<files, statsFile, initialized>>
  /\ AsyncFrame

----------------------------------------------------------------------------
(* cleanup, step by step *)

\* cleanup() is called: readdir is issued (line 252)
CleanupStarts(t) ==
  /\ CanStart(t)
  /\ tasks' = [tasks EXCEPT ![t] = StartedTask("cleanup", "readdir")]
  /\ UNCHANGED <<files, stats, statsFile, initialized>>
  /\ AsyncFrame

\* readFile of cleanup takes effect (line 257): the failure of readFile or of
\* JSON.parse ends the call in its catch block, an expired entry is unlinked,
\* another one is passed over (lines 258-263)
CleanupReadLands(t) ==
  /\ tasks[t].op = "cleanup"
  /\ tasks[t].pc = "readFile"
  /\ LET f == files[tasks[t].key]
     IN IF ~IsEntry(f)
        THEN tasks' = [tasks EXCEPT ![t] = Returned(@, "failed")]
        ELSE IF IsExpired(f, now)
             THEN tasks' = [tasks EXCEPT ![t].pc = "unlink"]
             ELSE Visit(t, tasks[t])
  /\ UNCHANGED <<files, stats, statsFile, initialized>>
  /\ AsyncFrame

\* cleanup after its loop: the block of lines 267-272, and the return
CleanupEnds(t) ==
  /\ tasks[t].op = "cleanup"
  /\ tasks[t].pc = "loopEnd"
  /\ IF tasks[t].cleaned > 0
     THEN /\ stats' = RecordCleanup(stats, tasks[t].cleaned)
          /\ tasks' = [tasks EXCEPT ![t] =
                         [IssueSaveStats(@, stats') EXCEPT !.ret = "cleaned"]]
     ELSE /\ tasks' = [tasks EXCEPT ![t] = Returned(@, "cleaned")]
          /\ UNCHANGED stats
  /\ UNCHANGED <<files, statsFile, initialized>>
  /\ AsyncFrame

----------------------------------------------------------------------------
(* The specification of the overlapping calls *)

\* the instants at which the calls overlap: the last instant of the entry
\* set at 0, and the instant after it
AsyncInstants == {TtlMs, TtlMs + 1}

\* the directory two sets have left: the entry of the other pair set at 0,
\* the entry of the pair set at 1
AsyncFiles ==
  [k \in Keys |->
     IF k = AsyncKey
     THEN NewEntry(AsyncInput[1], AsyncInput[2], "r1", "sonar-pro", 1200, 1)
     ELSE NewEntry("q1", ParamsBF, "r1", "sonar-pro", 1200, 0)]

\* the stats after the two sets
AsyncStats == RecordSet(RecordSet(DefaultStats(0), 0), 1)

\* the calls overlap on the instance that made the two sets, or on a new
\* instance constructed over its directory, whose initialize() is in flight;
\* the last write of stats.json of the earlier instance may have failed midway
InitAsync ==
  /\ now \in AsyncInstants
  /\ dirExists = TRUE
  /\ files = AsyncFiles
  /\ \/ /\ initialized = TRUE
        /\ statsFile = StatsOfFile(AsyncStats)
        /\ stats = AsyncStats
        /\ tasks = [t \in {0} \cup Callers |->
                      IF t = 0
                      THEN [IdleTask EXCEPT !.op = "initialize", !.pc = "done",
                                            !.ret = "loaded",
                                            !.entry = statsFile]
                      ELSE IdleTask]
     \/ /\ initialized = FALSE
        /\ statsFile \in {StatsOfFile(AsyncStats), Corrupt}
        /\ stats = DefaultStats(now)
        /\ tasks = [t \in {0} \cup Callers |->
                      IF t = 0
                      THEN [IdleTask EXCEPT !.op = "initialize", !.pc = "mkdir"]
                      ELSE IdleTask]
  /\ last = Call("new", NoKey, Null, Null, 0, "none", "skipped", 0)
  /\ calls = 0
  /\ faults = 0
  /\ costCall = NoCostCall

\* the step of the call in flight t
TaskStep(t) ==
  \/ SaveStatsLands(t)
  \/ WriteLands(t)
  \/ ReaddirLands(t)
  \/ UnlinkLands(t)
  \/ GetReadLands(t)
  \/ GetMisses(t)
  \/ GetAfterWrite(t)
  \/ SetAfterWrite(t)
  \/ ClearResets(t)
  \/ CleanupReadLands(t)
  \/ CleanupEnds(t)

InitStep ==
  \/ InitMkdirDone
  \/ InitReadLands
  \/ InitAfterRead
  \/ SaveStatsLands(0)

NextAsync ==
  \/ InitStep
  \/ \E t \in Callers :
       \/ GetStarts(t)
       \/ SetStarts(t)
       \/ ClearStarts(t)
       \/ CleanupStarts(t)
       \/ TaskStep(t)

SpecAsync == InitAsync /\ [][NextAsync]_vars

\* every call has returned
Quiescent == \A t \in DOMAIN tasks : tasks[t].pc \in {"idle", "done"}

----------------------------------------------------------------------------
(* C31: a set and an overlapping get of its key *)

\* the calls of method op that have returned
ReturnedCalls(op) ==
  {t \in Callers : tasks[t].op = op /\ tasks[t].pc = "done"}

\* the gets that have returned the response r
GetsReturning(r) == {t \in ReturnedCalls("get") : tasks[t].ret = r}

\* C31: when a get has read the old entry and has written it back, with its
\* hit, over the entry that an overlapping set had written in between, then
\* once both have returned the entry file holds the response and the expiry
\* of the set, and a following get returns that response.
C31_SetNotUndoneByGet ==
  (/\ Quiescent
   /\ ReturnedCalls("set") # {}
   /\ \E g \in GetsReturning("r1") : tasks[g].replaced = AsyncResponse)
    => /\ IsEntry(files[AsyncKey])
       /\ files[AsyncKey].response = AsyncResponse
       /\ files[AsyncKey].expiresAt = now + TtlMs
       /\ GetReturn(files[AsyncKey], GetPath(files[AsyncKey], "none", now))
            = AsyncResponse

----------------------------------------------------------------------------
(* C32: a clear and an overlapping get *)

\* C32: when a get has read a valid entry before a clear deleted its file
\* and has written it back afterwards, then once the clear and the get have
\* returned no entry file exists and the counters are all zero.
C32_ClearNotUndoneByGet ==
  (/\ Quiescent
   /\ \E c \in ReturnedCalls("clear") : tasks[c].ret = "cleared"
   /\ \E g \in GetsReturning("r1") : tasks[g].replaced = "nothing")
    => /\ EntryFiles = {}
       /\ \A c \in Counters : stats[c] = 0

----------------------------------------------------------------------------
(* C33: overlapping gets of one key *)

\* C33: when the calls made on the initialized instance are k gets of the
\* entry, which all return its response, the hit count of the entry file and
\* totalHits have both grown by k, whatever the order of their steps.
C33_NoHitLost ==
  (/\ Quiescent
   /\ \A t \in Callers :
        /\ tasks[t].op \in {"get", "none"}
        /\ tasks[t].op = "get" => (tasks[t].sawInit /\ tasks[t].ret = "r1"))
    => /\ IsEntry(files[AsyncKey])
       /\ files[AsyncKey].hits
            = AsyncFiles[AsyncKey].hits + Cardinality(GetsReturning("r1"))
       /\ stats.totalHits
            = AsyncStats.totalHits + Cardinality(GetsReturning("r1"))

----------------------------------------------------------------------------
(* C34: stats.json after overlapping calls *)

\* C34: once all the calls made on the initialized instance have returned,
\* stats.json holds the in-memory counters, whatever the order in which the
\* writes of stats.json took effect.
C34_StatsFileIsCurrent ==
  (/\ Quiescent
   /\ \A t \in Callers : tasks[t].op # "none" => tasks[t].sawInit)
    => statsFile = StatsOfFile(stats)

----------------------------------------------------------------------------
(* C35: calls made before initialize() has finished *)

\* C35: when initialize() has loaded the stats.json of the earlier instance
\* and the gets and sets made meanwhile have returned, the in-memory counters
\* are those of the file plus one hit or miss for each get and one saved entry
\* for each set.
C35_EarlyUpdatesKept ==
  (/\ Quiescent
   /\ tasks[0].ret = "loaded"
   /\ tasks[0].entry = StatsOfFile(AsyncStats)
   /\ \A t \in Callers : tasks[t].op \in {"get", "set", "none"})
    => /\ TotalRequests(stats)
            = TotalRequests(AsyncStats) + Cardinality(ReturnedCalls("get"))
       /\ stats.totalSaved
            = AsyncStats.totalSaved + Cardinality(ReturnedCalls("set"))
       /\ stats.totalEntries
            = AsyncStats.totalEntries + Cardinality(ReturnedCalls("set"))

----------------------------------------------------------------------------
(* The overlapping calls, with the file-system calls completing *)

\* the calls overlap on the instance that made the two sets, once the entry
\* set at 0 has expired
InitAsyncFair ==
  /\ now = TtlMs + 1
  /\ dirExists = TRUE
  /\ files = AsyncFiles
  /\ statsFile = StatsOfFile(AsyncStats)
  /\ initialized = TRUE
  /\ stats = AsyncStats
  /\ tasks = [t \in {0} \cup Callers |->
                IF t = 0
                THEN [IdleTask EXCEPT !.op = "initialize", !.pc = "done",
                                      !.ret = "loaded"]
                ELSE IdleTask]
  /\ last = Call("new", NoKey, Null, Null, 0, "none", "skipped", 0)
  /\ calls = 0
  /\ faults = 0
  /\ costCall = NoCostCall

NextAsyncFair ==
  \E t \in Callers :
    \/ GetStarts(t)
    \/ SetStarts(t)
    \/ ClearStarts(t)
    \/ CleanupStarts(t)
    \/ TaskStep(t)

\* a step of one of the calls in flight
Progress == \E t \in Callers : TaskStep(t)

\* while calls are in flight, one of the file-system calls they await
\* completes or fails, or the event loop resumes one of them; nothing obliges
\* a caller to call
SpecAsyncFair ==
  /\ InitAsyncFair
  /\ [][NextAsyncFair]_vars
  /\ WF_vars(Progress)

\* the call in flight t has not returned
InFlight(t) == tasks[t].pc \notin {"idle", "done"}

\* C38: every get, set, clear and cleanup call that has started returns,
\* whatever the other calls in flight do.
C38_EveryCallReturns ==
  \A t \in Callers : InFlight(t) ~> (tasks[t].pc = "done")

\* a clear and a cleanup that overlapped have both returned, the clear from
\* its catch block: the cleanup had unlinked the expired file of its listing
C38_Witness ==
  /\ Quiescent
  /\ \E t \in Callers, u \in Callers :
       /\ tasks[t].op = "clear"
       /\ tasks[t].ret = "failed"
       /\ tasks[u].op = "cleanup"
       /\ tasks[u].ret = "cleaned"
  /\ files[OtherKey] = NoFile
  /\ stats.totalEntries = 1

====
